---- MODULE Spec2Model ----
(***************************************************************************)
(* Upvote ledger of the OriginHub backend (app/services/ideas_service.py,  *)
(* app/routes/ideas.py) over its relational store.                          *)
(*                                                                          *)
(* The committed database is the variables ideas, upvotes and idea_upvotes. *)
(* Every service call opens its own SQLAlchemy session (SessionLocal(),     *)
(* autocommit=False, autoflush=False): what a session has loaded, changed   *)
(* and not yet flushed is sess[r]; nothing of it is visible to another      *)
(* session before Commit.  Each SQL statement of a handler is one step, so  *)
(* that sessions of different server processes interleave between           *)
(* statements (PostgreSQL READ COMMITTED: a statement sees what is          *)
(* committed when it runs).  db.commit() flushes and commits in one step.   *)
(***************************************************************************)
EXTENDS Integers, FiniteSets, Sequences, TLC

\* Identifiers the model draws from (uuid strings and Clerk user ids).
IdeaIds == {"i1", "i2"}
Users == {"u1", "u2"}
\* Request slots: the execution contexts that can be inside a handler at once.
Reqs == {"r1", "r2"}
\* POST /ideas/add accepts any "upvotes" value for a new idea: 0..MaxInitUpvotes.
MaxInitUpvotes == 2
\* POST /ideas/{id}/view is accepted while ideas.views is below MaxViews.
MaxViews == 2

NoIdea == "no_idea"
NoUser == "no_user"

\* Comment ids (uuid strings), in the order the model hands them out.
IdOrder == <<"c1", "c2", "c3", "c4">>
CommentIds == {IdOrder[k] : k \in 1..Len(IdOrder)}
\* The ids the comment calls use when they are followed step by step.
FewIds == {"c1", "c2", "c3"}
NoComment == "no_comment"
\* datetime.utcnow() runs from 1 to MaxTime.
MaxTime == 4

VARIABLES
    ideas,          \* ids of the rows of table ideas
    upvotes,        \* ideas.upvotes, the cached counter, per idea id
    idea_upvotes,   \* table idea_upvotes: number of rows per <<user_id, idea_id>>
    views,          \* ideas.views, per idea id
    idea_owner,     \* ideas.user_id, per idea id (NoUser: NULL)
    pc,             \* per request: the statement it executes next
    call,           \* per request: the operation and its arguments
    sess,           \* per request: its SQLAlchemy session (uncommitted state)
    ret,            \* per request: what the service call returned or raised
    http,           \* per request: status code of the response, 0 before it
    msg,            \* per request: the message handed to the broadcaster
    pre,            \* per request: ideas.upvotes of its idea when it began
    prev,           \* the call completed before the current one (one at a time)
    overlap,        \* pairs of requests whose current transactions were open together
    sweep,          \* the last repair that ended: the ideas it had visited, and
                    \* those among them whose counter differed from the count
    comments,       \* table comments, per comment id
    now,            \* datetime.utcnow()
    cpc,            \* per request: the statement of a comment handler it executes next
    ccall,          \* per request: the comment operation and its arguments
    csess,          \* per request: the objects its session has loaded
    cret,           \* per request: what the comment service returned or raised
    chttp,          \* per request: status code of the response, 0 before it
    chat_messages,  \* table messages: the rows of the chat, in order of created_at
    chat_title,     \* chats.title of the chat (NoChat: no row, NoTitle: NULL)
    stream,         \* the streaming handler: its position and local variables
    user_chats,     \* table chats: the chats of one user, per chat id
    getter,         \* per request: the handler of GET /chat/empty
    session_map,    \* _chat_to_session_map, per chat id (NoSession: no key)
    sessions,       \* the sessions of the agent API, per session id
    caller,         \* per request: the call of generate_ai_reply it is in
    active_connections, \* manager.active_connections: idea id -> set of WebSockets
    sockets,        \* per WebSocket: unused, open (accepted) or closed
    caster          \* the call of broadcast_to_idea under way

vars == <<ideas, upvotes, idea_upvotes, views, idea_owner, pc, call, sess, ret, http,
          msg, pre, prev, overlap, sweep, comments, now, cpc, ccall, csess, cret,
          chttp, chat_messages, chat_title, stream, user_chats, getter,
          session_map, sessions, caller, active_connections, sockets, caster>>
db == <<ideas, upvotes, idea_upvotes>>
\* The state of the chat handlers.
chat == <<chat_messages, chat_title, stream>>
\* The state of the comment and chat handlers.
\* The state of the other handlers of the chat routes and of the services
\* they use.
llm == <<session_map, sessions, caller>>
ws == <<active_connections, sockets, caster>>
services == <<user_chats, getter, llm, ws>>
outside == <<comments, now, cpc, ccall, csess, cret, chttp, chat, services>>
\* What the upvote and read handlers never write.
elsewhere == <<views, idea_owner, sweep, outside>>

(***************************************************************************)
(* Sessions, results, messages                                              *)
(***************************************************************************)

\* sessionmaker(autocommit=False, autoflush=False, bind=engine)
autoflush == FALSE

\* A fresh session: identity map empty, nothing pending.
\*   loaded  - ideas whose Idea object is in the identity map
\*   upv     - the objects' upvotes attribute
\*   dirty   - objects whose upvotes differs from the loaded row
\*   pending - the IdeaUpvote the session has add()ed or delete()d, unflushed
\*   todo    - ideas the loop of get_all_ideas has still to visit
\*   counts  - the counts a repair has collected (synced_counts)
\*   views   - the views attribute of the object increment_views has loaded
EmptySess ==
    [loaded |-> {}, upv |-> [i \in IdeaIds |-> 0], dirty |-> {},
     pending |-> "none", todo |-> {}, counts |-> [i \in IdeaIds |-> 0],
     views |-> 0]

NoRet == [kind |-> "running", detail |-> "", ids |-> {}, upv |-> [i \in IdeaIds |-> 0],
          views |-> 0]
NoMsg == [type |-> "none", idea_id |-> NoIdea, upvotes |-> 0, views |-> 0,
          user_id |-> NoUser, action |-> "none", delivered |-> FALSE]
NoCall == [op |-> "none", idea_id |-> NoIdea, user_id |-> NoUser, match |-> {}]
NoSweep == [visited |-> {}, stale |-> {}]
NoPrev == [op |-> "none", idea_id |-> NoIdea, user_id |-> NoUser, match |-> {},
           kind |-> "none", pre |-> 0, upv |-> 0]

\* A row of table comments; Unborn: the id has not been used, Gone: its row
\* has been deleted.
Row(i, u, p, t) ==
    [state |-> "present", idea_id |-> i, user_id |-> u, parent_comment_id |-> p,
     created_at |-> t]
Unborn ==
    [state |-> "unborn", idea_id |-> NoIdea, user_id |-> NoUser,
     parent_comment_id |-> NoComment, created_at |-> 0]
Gone ==
    [state |-> "gone", idea_id |-> NoIdea, user_id |-> NoUser,
     parent_comment_id |-> NoComment, created_at |-> 0]

NoCommentCall ==
    [op |-> "none", idea_id |-> NoIdea, user_id |-> NoUser,
     parent_comment_id |-> NoComment, comment_id |-> NoComment]
\* comment: the Comment object loaded, idea_user_id: user_id of the Idea loaded
NoObjects == [comment |-> Unborn, idea_user_id |-> NoUser]
\* kind, detail: the value returned or the exception raised; id: the comment
\* created; tree: the list get_idea_comments returned
NoCommentRet == [kind |-> "running", detail |-> "", id |-> NoComment, tree |-> <<>>]

\* POST, GET /ideas/{idea_id}/comments, DELETE /ideas/{idea_id}/comments/{id}
ListCalls ==
    [op : {"list"}, idea_id : IdeaIds, user_id : {NoUser},
     parent_comment_id : {NoComment}, comment_id : {NoComment}]
CommentCalls ==
    [op : {"create"}, idea_id : IdeaIds, user_id : Users,
     parent_comment_id : FewIds \cup {NoComment}, comment_id : {NoComment}]
    \cup ListCalls
    \cup [op : {"delete"}, idea_id : {NoIdea}, user_id : Users,
          parent_comment_id : {NoComment}, comment_id : FewIds]

\* The calls a client can make.
UpvoteCalls ==
    [op : {"add", "remove"}, idea_id : IdeaIds, user_id : Users, match : {{}}]
ReadCalls ==
    [op : {"get"}, idea_id : IdeaIds, user_id : {NoUser}, match : {{}}]
    \cup [op : {"list"}, idea_id : {NoIdea}, user_id : {NoUser},
          match : SUBSET IdeaIds]

\* POST /ideas/{idea_id}/view (no authentication).
ViewCalls ==
    [op : {"view"}, idea_id : IdeaIds, user_id : {NoUser}, match : {{}}]

\* _sync_upvote_count applied to one idea and committed, and
\* POST /ideas/sync-upvote-counts.
RepairCalls ==
    [op : {"recount"}, idea_id : IdeaIds, user_id : {NoUser}, match : {{}}]
    \cup [op : {"recount_all"}, idea_id : {NoIdea}, user_id : {NoUser},
          match : {{}}]

\* Table comments empty and no comment request under way.
NoComments ==
    /\ comments = [c \in CommentIds |-> Unborn]
    /\ now = 1
    /\ cpc = [r \in Reqs |-> "idle"]
    /\ ccall = [r \in Reqs |-> NoCommentCall]
    /\ csess = [r \in Reqs |-> NoObjects]
    /\ cret = [r \in Reqs |-> NoCommentRet]
    /\ chttp = [r \in Reqs |-> 0]

\* Texts are sequences of words (1, 2, ...) and spaces (0).
Space == 0
\* The messages a client sends, after message.strip().
UserTexts == {<<1>>, <<2, Space, 1>>}
\* The reply of the LLM has 1..MaxWords words.
MaxWords == 2
\* A chat is followed until it holds MaxMessages messages.
MaxMessages == 4

NoChat == "no_chat"
NoTitle == "None"

\* The handler of a streaming POST /chat/send:
\*   pc            - the statement it executes next
\*   message       - the user's message
\*   style, words  - how generate_ai_reply_stream cuts the reply into tokens,
\*                   and the number of words of the reply
\*   produced      - the tokens the generator has yielded
\*   full_response - the local variable of _handle_streaming_message
\*   ending        - how the loop over the tokens ended
\*   status        - status code of the response, 0 before it
\*   failed        - a call of chat_service has raised
NoStream ==
    [pc |-> "idle", message |-> <<>>, style |-> "none", words |-> 0,
     produced |-> 0, full_response |-> <<>>, ending |-> "none", status |-> 0,
     failed |-> FALSE]

\* Chat ids (uuid strings) of the chats of the user.
ChatIds == {"k1", "k2", "k3"}
\* The handler of GET /chat/empty: the statement it executes next and the
\* chat it answers with.
NoGetter == [pc |-> "idle", chat_id |-> NoChat, status |-> 0]

\* Session ids the agent API hands out.
SessionIds == {"s1", "s2", "s3"}
NoSession == "no_session"
\* A call of generate_ai_reply:
\*   pc         - the await it is at
\*   chat_id    - its argument (NoChat: none given)
\*   session_id - its local variable
\*   outcome    - how the call of the agent API ended
\*   deleted    - what became of the DELETE of the session, if one was sent
NoCaller ==
    [pc |-> "idle", chat_id |-> NoChat, session_id |-> NoSession,
     outcome |-> "none", deleted |-> "not_sent"]

\* The WebSocket objects of the clients.
Conns == {"w1", "w2", "w3"}
NoConn == "no_conn"
\* A call of manager.broadcast_to_idea(idea_id, message):
\*   pc           - idle, sending (awaiting connection.send_json) or done
\*   idea_id      - its argument
\*   at_start     - the connections of the idea when the call began
\*   used         - the size of the set when its iteration began
\*   visited      - the connections the loop has reached
\*   to           - the connection of the current turn of the loop
\*   sent         - the connections whose send_json returned
\*   disconnected - the local set of the connections whose send_json raised
\*   raised       - the exception the call ended with, if any
NoCaster ==
    [pc |-> "idle", idea_id |-> NoIdea, at_start |-> {}, used |-> 0,
     visited |-> {}, to |-> NoConn, sent |-> {}, disconnected |-> {},
     raised |-> "none"]

\* No chat and no chat request under way.
NoChats ==
    /\ chat_messages = <<>>
    /\ chat_title = NoChat
    /\ stream = NoStream
    /\ user_chats = [k \in ChatIds |-> "unborn"]
    /\ getter = [r \in Reqs |-> NoGetter]
    /\ session_map = [k \in ChatIds |-> NoSession]
    /\ sessions = [x \in SessionIds |-> "unborn"]
    /\ caller = [r \in Reqs |-> NoCaller]
    /\ active_connections = <<>>
    /\ sockets = [w \in Conns |-> "unused"]
    /\ caster = NoCaster

Init ==
    /\ ideas = {}
    /\ upvotes = [i \in IdeaIds |-> 0]
    /\ idea_upvotes = [p \in Users \X IdeaIds |-> 0]
    /\ views = [i \in IdeaIds |-> 0]
    /\ idea_owner = [i \in IdeaIds |-> NoUser]
    /\ pc = [r \in Reqs |-> "idle"]
    /\ call = [r \in Reqs |-> NoCall]
    /\ sess = [r \in Reqs |-> EmptySess]
    /\ ret = [r \in Reqs |-> NoRet]
    /\ http = [r \in Reqs |-> 0]
    /\ msg = [r \in Reqs |-> NoMsg]
    /\ pre = [r \in Reqs |-> 0]
    /\ prev = NoPrev
    /\ overlap = {}
    /\ sweep = NoSweep
    /\ NoComments
    /\ NoChats

(***************************************************************************)
(* Queries and constraints                                                  *)
(***************************************************************************)

RECURSIVE SumRows(_, _, _)
SumRows(rows, i, us) ==
    IF us = {} THEN 0
    ELSE LET u == CHOOSE x \in us : TRUE
         IN  rows[<<u, i>>] + SumRows(rows, i, us \ {u})

\* The pair <<user_id, idea_id>> of the IdeaUpvote a call is about.
Pair(r) == <<call[r].user_id, call[r].idea_id>>

\* Table idea_upvotes as a SELECT of session r reads it.  With autoflush off
\* the session's pending insert or delete is not flushed before the query, so
\* the query reads the committed rows only.
Visible(r) ==
    IF autoflush /\ sess[r].pending = "insert"
        THEN [idea_upvotes EXCEPT ![Pair(r)] = @ + 1]
    ELSE IF autoflush /\ sess[r].pending = "delete" /\ idea_upvotes[Pair(r)] > 0
        THEN [idea_upvotes EXCEPT ![Pair(r)] = @ - 1]
    ELSE idea_upvotes

\* db.query(func.count(IdeaUpvote.id)).filter(IdeaUpvote.idea_id == i).scalar() or 0
CountOfAnotherIdea(r, i) == SumRows(Visible(r), CHOOSE j \in IdeaIds : j # i, Users)
actual_count(r, i) == SumRows(Visible(r), i, Users)

\* db.query(Idea).filter(Idea.id == idea_id).first() is not None
AnyIdeaFound(i) == TRUE
idea_found(i) == i \in ideas

\* db.query(IdeaUpvote).filter(idea_id == .., user_id == ..).first() is not None
NeverExisting(r) == FALSE
AlwaysExisting(r) == TRUE
existing_upvote(r) == Visible(r)[Pair(r)] > 0

\* has_user_upvoted(idea_id, user_id): its own session, one SELECT.
has_user_upvoted(i, u) == idea_upvotes[<<u, i>>] > 0

\* UniqueConstraint("user_id", "idea_id"): the INSERT of the pair is refused
\* when a committed row holds it.
NoUniqueConstraint(r) == FALSE
unique_user_idea_upvote(r) == idea_upvotes[Pair(r)] > 0

\* ForeignKey("ideas.id"): the INSERT needs the idea's row.
idea_fk_violated(r) == call[r].idea_id \notin ideas

\* idea.upvotes = value on a loaded object: the object is dirty when the
\* value differs from the one loaded.
SetEveryUpvotes(s, i, value) ==
    [s EXCEPT !.upv = [j \in IdeaIds |-> value], !.dirty = IdeaIds]
SetUpvotes(s, i, value) ==
    [s EXCEPT !.upv[i] = value,
              !.dirty = IF value # s.upv[i] THEN @ \cup {i} ELSE @]

\* The flush of db.commit(): UPDATE ideas SET upvotes for the dirty objects,
\* INSERT or DELETE of the pending IdeaUpvote.
FlushFails(r) ==
    /\ sess[r].pending = "insert"
    /\ (unique_user_idea_upvote(r) \/ idea_fk_violated(r))

FlushedUpvotes(r) ==
    [i \in IdeaIds |->
        IF i \in sess[r].dirty /\ i \in ideas THEN sess[r].upv[i] ELSE upvotes[i]]

FlushedRows(r) ==
    IF sess[r].pending = "insert"
        THEN [idea_upvotes EXCEPT ![Pair(r)] = @ + 1]
    ELSE IF sess[r].pending = "delete" /\ idea_upvotes[Pair(r)] > 0
        THEN [idea_upvotes EXCEPT ![Pair(r)] = @ - 1]
    ELSE idea_upvotes

\* db.rollback(): the transaction's statements are undone, the committed
\* tables stay as they are.
RollbackKeepsFlush(r) ==
    [upvotes |-> FlushedUpvotes(r), idea_upvotes |-> idea_upvotes]
AfterRollback(r) ==
    [upvotes |-> upvotes, idea_upvotes |-> idea_upvotes]

\* The upvotes of the dictionaries a call returns, per idea id.
NoDict == [i \in IdeaIds |-> 0]
OneDict(i, n) == [j \in IdeaIds |-> IF j = i THEN n ELSE 0]

\* if not updated_idea: 404; except ValueError: 400; except Exception: 500;
\* otherwise 200.
StatusOf(kind) ==
    IF kind = "None" THEN 404
    ELSE IF kind = "ValueError" THEN 400
    ELSE IF kind = "Exception" THEN 500
    ELSE 200

\* The service call ends with a result and its session closed, and the route
\* handler, which runs on without a break, answers; only the upvote and view
\* routes, given a dictionary, first await the broadcast.  The dictionary of
\* one idea carries the views of its row.
NotifiesAnyOutcome(op, kind) == op \in {"add", "remove", "view"}
Notifies(op, kind) == kind = "dict" /\ op \in {"add", "remove", "view"}

Finish(r, kind, detail, ids, upv) ==
    /\ ret' = [ret EXCEPT ![r] =
                 [kind |-> kind, detail |-> detail, ids |-> ids, upv |-> upv,
                  views |-> IF kind = "dict" THEN views[call[r].idea_id] ELSE 0]]
    /\ sess' = [sess EXCEPT ![r] = EmptySess]
    /\ IF Notifies(call[r].op, kind)
       THEN /\ pc' = [pc EXCEPT ![r] = "broadcast"]
            /\ UNCHANGED http
       ELSE /\ pc' = [pc EXCEPT ![r] = "done"]
            /\ http' = [http EXCEPT ![r] = StatusOf(kind)]

Return(r, kind, ids, upv) == Finish(r, kind, "", ids, upv)

\* except ValueError: db.rollback(); raise
\* except Exception as e: db.rollback(); raise Exception(f"Error ...: {str(e)}")
Raise(r, kind, detail) ==
    /\ Finish(r, kind, detail, {}, NoDict)
    /\ upvotes' = AfterRollback(r).upvotes
    /\ idea_upvotes' = AfterRollback(r).idea_upvotes
    /\ UNCHANGED ideas

(***************************************************************************)
(* Creating ideas                                                           *)
(***************************************************************************)

\* add_idea(idea_data): one INSERT of an ideas row with the given id, the
\* given (or default 0) upvotes, views 0 (the request names none) and the
\* given user_id (NoUser: none given, or one that is not in table users),
\* committed at once.
AddIdea(i, v, u) ==
    /\ i \notin ideas
    /\ ideas' = ideas \cup {i}
    /\ upvotes' = [upvotes EXCEPT ![i] = v]
    /\ views' = [views EXCEPT ![i] = 0]
    /\ idea_owner' = [idea_owner EXCEPT ![i] = u]
    /\ UNCHANGED <<idea_upvotes, pc, call, sess, ret, http, msg, pre, prev, overlap,
                   sweep, outside>>

(***************************************************************************)
(* A request                                                                *)
(***************************************************************************)

Underway == {q \in Reqs : pc[q] \notin {"idle", "done"}}
Quiet == Underway = {}
\* Requests between SessionLocal() and the end of db.commit().
InTransaction == {q \in Reqs : pc[q] \in {"query", "check", "sync", "commit"}}

Summary(r) ==
    [op |-> call[r].op, idea_id |-> call[r].idea_id, user_id |-> call[r].user_id,
     match |-> call[r].match, kind |-> ret[r].kind, pre |-> pre[r],
     upv |-> IF call[r].idea_id \in IdeaIds THEN ret[r].upv[call[r].idea_id] ELSE 0]

Start(r, c) ==
    /\ pc[r] \in {"idle", "done"}
    /\ pc' = [pc EXCEPT ![r] = "query"]
    /\ call' = [call EXCEPT ![r] = c]
    /\ sess' = [sess EXCEPT ![r] = EmptySess]
    /\ ret' = [ret EXCEPT ![r] = NoRet]
    /\ http' = [http EXCEPT ![r] = 0]
    /\ msg' = [msg EXCEPT ![r] = NoMsg]
    /\ UNCHANGED <<db, elsewhere>>

\* A request arrives while others may be under way; overlap remembers the
\* requests whose transaction is open when this one opens its own.
Begin(r, c) ==
    /\ Start(r, c)
    /\ overlap' = {p \in overlap : p[1] # r /\ p[2] # r}
                  \cup UNION {{<<r, q>>, <<q, r>>} : q \in InTransaction \ {r}}
    /\ UNCHANGED <<pre, prev>>

\* A request arrives when no other is under way; pre and prev remember the
\* counter it found and the call before it.
BeginSeq(r, c) ==
    /\ Quiet
    /\ Start(r, c)
    /\ pre' = [pre EXCEPT ![r] =
                 IF c.idea_id \in IdeaIds THEN upvotes[c.idea_id] ELSE 0]
    /\ prev' = IF pc[r] = "done" THEN Summary(r) ELSE prev
    /\ UNCHANGED overlap

\* idea = db.query(Idea).filter(Idea.id == idea_id).first()
\* if not idea: return None
QueryIdea(r) ==
    /\ pc[r] = "query"
    /\ call[r].op \in {"add", "remove", "get"}
    /\ LET i == call[r].idea_id IN
       IF idea_found(i)
       THEN /\ sess' = [sess EXCEPT ![r] =
                          [@ EXCEPT !.loaded = {i}, !.upv[i] = upvotes[i]]]
            /\ pc' = [pc EXCEPT ![r] = IF call[r].op = "get" THEN "sync" ELSE "check"]
            /\ UNCHANGED <<ret, http>>
       ELSE Return(r, "None", {}, NoDict)
    /\ UNCHANGED <<db, call, msg, pre, prev, overlap, elsewhere>>

\* increment_upvotes: existing_upvote = ...first(); if existing_upvote: raise
\* ValueError; upvote = IdeaUpvote(...); db.add(upvote)
\* decrement_upvotes: upvote = ...first(); if not upvote: raise ValueError;
\* db.delete(upvote)
CheckExisting(r) ==
    /\ pc[r] = "check"
    /\ IF call[r].op = "add"
       THEN IF existing_upvote(r)
            THEN Raise(r, "ValueError", "User has already upvoted this idea")
            ELSE /\ sess' = [sess EXCEPT ![r].pending = "insert"]
                 /\ pc' = [pc EXCEPT ![r] = "sync"]
                 /\ UNCHANGED <<db, ret, http>>
       ELSE IF ~existing_upvote(r)
            THEN Raise(r, "ValueError", "User has not upvoted this idea")
            ELSE /\ sess' = [sess EXCEPT ![r].pending = "delete"]
                 /\ pc' = [pc EXCEPT ![r] = "sync"]
                 /\ UNCHANGED <<db, ret, http>>
    /\ UNCHANGED <<call, msg, pre, prev, overlap, elsewhere>>

\* _sync_upvote_count(db, idea_id): the count query, then
\* idea = db.query(Idea)...first(); if idea: idea.upvotes = actual_count
SyncUpvoteCount(r) ==
    /\ pc[r] = "sync"
    /\ call[r].op \in {"add", "remove"}
    /\ LET i == call[r].idea_id IN
       sess' = [sess EXCEPT ![r] =
                  IF idea_found(i) THEN SetUpvotes(@, i, actual_count(r, i)) ELSE @]
    /\ pc' = [pc EXCEPT ![r] = "commit"]
    /\ UNCHANGED <<db, call, ret, http, msg, pre, prev, overlap, elsewhere>>

\* db.commit() of increment_upvotes and decrement_upvotes: flush and COMMIT;
\* an IntegrityError of the flush is caught by "except Exception".
CommitUpvote(r) ==
    /\ pc[r] = "commit"
    /\ call[r].op \in {"add", "remove"}
    /\ IF FlushFails(r)
       THEN Raise(r, "Exception", "IntegrityError")
       ELSE /\ upvotes' = FlushedUpvotes(r)
            /\ idea_upvotes' = FlushedRows(r)
            /\ sess' = [sess EXCEPT ![r] = [@ EXCEPT !.dirty = {}, !.pending = "none"]]
            /\ pc' = [pc EXCEPT ![r] = "refresh"]
            /\ UNCHANGED <<ideas, ret, http>>
    /\ UNCHANGED <<call, msg, pre, prev, overlap, elsewhere>>

\* db.refresh(idea); return IdeasService._convert_model_to_dict(idea)
Refresh(r) ==
    /\ pc[r] = "refresh"
    /\ LET i == call[r].idea_id IN
       Return(r, "dict", {i}, OneDict(i, upvotes[i]))
    /\ UNCHANGED <<db, call, msg, pre, prev, overlap, elsewhere>>

\* get_idea_by_id: the count query; if idea.upvotes != actual_count the
\* column is synced and committed; idea_dict["upvotes"] = actual_count
GetCount(r) ==
    /\ pc[r] = "sync"
    /\ call[r].op = "get"
    /\ LET i == call[r].idea_id
           actual == actual_count(r, i)
       IN  IF sess[r].upv[i] # actual
           THEN /\ sess' = [sess EXCEPT ![r] = SetUpvotes(@, i, actual)]
                /\ pc' = [pc EXCEPT ![r] = "commit"]
                /\ UNCHANGED <<ret, http>>
           ELSE Return(r, "dict", {i}, OneDict(i, actual))
    /\ UNCHANGED <<db, call, msg, pre, prev, overlap, elsewhere>>

\* get_all_ideas: ideas = query.all(), the rows the search and tags filters
\* match (call.match)
QueryAll(r) ==
    /\ pc[r] = "query"
    /\ call[r].op = "list"
    /\ LET found == ideas \cap call[r].match IN
       /\ sess' = [sess EXCEPT ![r] =
                     [@ EXCEPT !.loaded = found, !.todo = found,
                               !.upv = [i \in IdeaIds |->
                                          IF i \in found THEN upvotes[i] ELSE 0]]]
       /\ pc' = [pc EXCEPT ![r] = IF found = {} THEN "commit" ELSE "sync"]
    /\ UNCHANGED <<db, call, ret, http, msg, pre, prev, overlap, elsewhere>>

\* get_all_ideas, one turn of "for idea in ideas": the count query and
\* if idea.upvotes != actual_count: idea.upvotes = actual_count
ListCount(r, i) ==
    /\ pc[r] = "sync"
    /\ call[r].op = "list"
    /\ i \in sess[r].todo
    /\ sess' = [sess EXCEPT ![r] =
                  [SetUpvotes(@, i, actual_count(r, i)) EXCEPT !.todo = @ \ {i}]]
    /\ pc' = [pc EXCEPT ![r] = IF sess[r].todo = {i} THEN "commit" ELSE "sync"]
    /\ UNCHANGED <<db, call, ret, http, msg, pre, prev, overlap, elsewhere>>

\* The upvotes a read puts in its dictionaries: actual_count, which the
\* loop has also stored in the loaded object.
ReturnedColumn(r) == [i \in IdeaIds |-> IF i \in sess[r].loaded THEN upvotes[i] ELSE 0]
ReturnedCounts(r) == [i \in IdeaIds |-> IF i \in sess[r].loaded THEN sess[r].upv[i] ELSE 0]

\* db.commit() of get_idea_by_id and get_all_ideas, and the return.
CommitRead(r) ==
    /\ pc[r] = "commit"
    /\ call[r].op \in {"get", "list"}
    /\ upvotes' = FlushedUpvotes(r)
    /\ Return(r, IF call[r].op = "get" THEN "dict" ELSE "list",
              sess[r].loaded, ReturnedCounts(r))
    /\ UNCHANGED <<ideas, idea_upvotes, call, msg, pre, prev, overlap, elsewhere>>

\* A statement or the commit fails in the store (connection lost, ...):
\* except Exception: db.rollback(); raise Exception(...); the reads have no
\* except clause, their session is closed by "finally".
StorageFailure(r) ==
    /\ pc[r] \in {"query", "check", "sync", "commit"}
    /\ Raise(r, "Exception", "OperationalError")
    /\ UNCHANGED <<call, msg, pre, prev, overlap, elsewhere>>

\* db.refresh(idea) fails: the commit before it stands.
RefreshFailure(r) ==
    /\ pc[r] = "refresh"
    /\ Finish(r, "Exception", "OperationalError", {}, NoDict)
    /\ UNCHANGED <<db, call, msg, pre, prev, overlap, elsewhere>>

(***************************************************************************)
(* Views                                                                    *)
(***************************************************************************)

\* increment_views: idea = db.query(Idea)...first(); if not idea: return
\* None; idea.views += 1 (the loaded value plus one, set on the object)
ViewQuery(r) ==
    /\ pc[r] = "query"
    /\ call[r].op = "view"
    /\ LET i == call[r].idea_id IN
       IF idea_found(i)
       THEN /\ sess' = [sess EXCEPT ![r] =
                          [@ EXCEPT !.loaded = {i}, !.upv[i] = upvotes[i],
                                    !.views = views[i] + 1]]
            /\ pc' = [pc EXCEPT ![r] = "commit"]
            /\ UNCHANGED <<ret, http>>
       ELSE Return(r, "None", {}, NoDict)
    /\ UNCHANGED <<db, call, msg, pre, prev, overlap, elsewhere>>

\* db.commit() of increment_views: UPDATE ideas SET views = <the value set>
ViewCommit(r) ==
    /\ pc[r] = "commit"
    /\ call[r].op = "view"
    /\ views' = [i \in IdeaIds |->
                   IF i \in sess[r].loaded /\ i \in ideas THEN sess[r].views
                   ELSE views[i]]
    /\ pc' = [pc EXCEPT ![r] = "refresh"]
    /\ UNCHANGED <<db, call, sess, ret, http, msg, pre, prev, overlap, idea_owner,
                   sweep, outside>>

(***************************************************************************)
(* Repair of the counters                                                   *)
(***************************************************************************)

\* _sync_upvote_count(db, idea_id) in a session of its own: the count query,
\* idea = db.query(Idea)...first(); if idea: idea.upvotes = actual_count;
\* return actual_count
RecountSync(r) ==
    /\ pc[r] = "query"
    /\ call[r].op = "recount"
    /\ LET i == call[r].idea_id
           actual == actual_count(r, i)
           s == [sess[r] EXCEPT !.counts[i] = actual]
       IN  sess' = [sess EXCEPT ![r] =
                      IF idea_found(i)
                      THEN SetUpvotes([s EXCEPT !.loaded = {i}, !.upv[i] = upvotes[i]],
                                      i, actual)
                      ELSE s]
    /\ pc' = [pc EXCEPT ![r] = "commit"]
    /\ UNCHANGED <<db, call, ret, http, msg, pre, prev, overlap, elsewhere>>

\* sync_all_upvote_counts: ideas = db.query(Idea).all(); synced_counts = {}
SyncAllQuery(r) ==
    /\ pc[r] = "query"
    /\ call[r].op = "recount_all"
    /\ sess' = [sess EXCEPT ![r] =
                  [@ EXCEPT !.loaded = ideas, !.todo = ideas,
                            !.upv = [i \in IdeaIds |->
                                       IF i \in ideas THEN upvotes[i] ELSE 0]]]
    /\ pc' = [pc EXCEPT ![r] = IF ideas = {} THEN "commit" ELSE "sync"]
    /\ UNCHANGED <<db, call, ret, http, msg, pre, prev, overlap, elsewhere>>

\* sync_all_upvote_counts, one turn of "for idea in ideas":
\* actual_count = _sync_upvote_count(db, idea.id)
\* synced_counts[str(idea.id)] = actual_count
SyncAllCount(r, i) ==
    /\ pc[r] = "sync"
    /\ call[r].op = "recount_all"
    /\ i \in sess[r].todo
    /\ LET actual == actual_count(r, i)
           s == [sess[r] EXCEPT !.counts[i] = actual, !.todo = @ \ {i}]
       IN  sess' = [sess EXCEPT ![r] =
                      IF idea_found(i) THEN SetUpvotes(s, i, actual) ELSE s]
    /\ pc' = [pc EXCEPT ![r] = IF sess[r].todo = {i} THEN "commit" ELSE "sync"]
    /\ UNCHANGED <<db, call, ret, http, msg, pre, prev, overlap, elsewhere>>

\* What the repair writes: the dirty counters, or nothing at all.
FlushedNothing(r) == upvotes
RepairedUpvotes(r) == FlushedUpvotes(r)

\* The ideas the repair of session r has visited so far, and those of them
\* whose cached counter differed from the count.
Swept(r) ==
    [visited |-> sess[r].loaded \ sess[r].todo, stale |-> sess[r].dirty]

\* db.commit(); return synced_counts (of the one idea: return actual_count)
RepairCommit(r) ==
    /\ pc[r] = "commit"
    /\ call[r].op \in {"recount", "recount_all"}
    /\ upvotes' = RepairedUpvotes(r)
    /\ IF call[r].op = "recount"
       THEN Return(r, "count", {call[r].idea_id}, sess[r].counts)
       ELSE Return(r, "counts", sess[r].loaded, sess[r].counts)
    /\ sweep' = Swept(r)
    /\ UNCHANGED <<ideas, idea_upvotes, views, idea_owner, call, msg, pre, prev,
                   overlap, outside>>

\* A statement of the repair or its commit fails in the store:
\* except Exception as e: db.rollback(); raise Exception(f"Error syncing ...")
RepairFailure(r) ==
    /\ pc[r] \in {"query", "sync", "commit"}
    /\ call[r].op \in {"recount", "recount_all"}
    /\ Raise(r, "Exception", "OperationalError")
    /\ sweep' = Swept(r)
    /\ UNCHANGED <<views, idea_owner, call, msg, pre, prev, overlap, outside>>

(***************************************************************************)
(* The route handlers                                                       *)
(***************************************************************************)

\* try: await broadcast_...(...) except Exception as e: print(...): the
\* handler goes on to its 200 response whether the broadcast raised or not.
BroadcastErrorPropagates(delivered) == IF delivered THEN 200 ELSE 500
AfterBroadcast(delivered) == 200

\* await broadcast_upvote_update(idea_id, updated_idea["upvotes"], user_id,
\* action), or await broadcast_view_update(idea_id, updated_idea["views"]),
\* inside try/except, then the 200 response.
BroadcastAndRespond(r, delivered) ==
    /\ pc[r] = "broadcast"
    /\ msg' = [msg EXCEPT ![r] =
                 IF call[r].op = "view"
                 THEN [type |-> "view_update", idea_id |-> call[r].idea_id,
                       upvotes |-> 0, views |-> ret[r].views,
                       user_id |-> NoUser, action |-> "none",
                       delivered |-> delivered]
                 ELSE [type |-> "upvote_update", idea_id |-> call[r].idea_id,
                       upvotes |-> ret[r].upv[call[r].idea_id], views |-> 0,
                       user_id |-> call[r].user_id,
                       action |-> IF call[r].op = "add" THEN "upvoted"
                                  ELSE "removed_upvote",
                       delivered |-> delivered]]
    /\ http' = [http EXCEPT ![r] = AfterBroadcast(delivered)]
    /\ pc' = [pc EXCEPT ![r] = "done"]
    /\ UNCHANGED <<db, call, sess, ret, pre, prev, overlap, elsewhere>>

(***************************************************************************)
(* Comments                                                                 *)
(***************************************************************************)

\* What the comment handlers never write.
ledger == <<ideas, upvotes, idea_upvotes, views, idea_owner, pc, call, sess, ret,
            http, msg, pre, prev, overlap, sweep, chat, services>>

Present == {c \in CommentIds : comments[c].state = "present"}

\* str(uuid.uuid4()): an id no comment has had; which of them makes no
\* difference, the model takes the first of IdOrder.
uuid4 ==
    IdOrder[CHOOSE k \in 1..Len(IdOrder) :
                /\ comments[IdOrder[k]].state = "unborn"
                /\ \A j \in 1..(k - 1) : comments[IdOrder[j]].state # "unborn"]

\* The messages of the ValueErrors, without the ids they quote.
IdeaNotFound == "Idea with id not found"
ParentNotFound == "Parent comment with id not found"
ParentIdeaMismatch == "Parent comment does not belong to idea"
PermissionDenied == "You don't have permission to delete this comment"

\* "not found" in error_msg.lower(), "permission" in error_msg.lower()
SaysNotFound(detail) == detail \in {IdeaNotFound, ParentNotFound}
SaysPermission(detail) == detail = PermissionDenied

\* The status code the routes of comments.py answer with.
CommentStatusOf(op, kind, detail) ==
    IF kind = "Exception" THEN 500
    ELSE IF kind = "ValueError"
        THEN IF SaysNotFound(detail) THEN 404
             ELSE IF op = "delete" /\ SaysPermission(detail) THEN 403
             ELSE 400
    ELSE IF kind \in {"False", "None"} THEN 404
    ELSE IF op = "create" THEN 201
    ELSE 200

\* The service call ends (finally: db.close()) and the route answers.
CommentFinish(r, kind, detail, id, tree) ==
    /\ cret' = [cret EXCEPT ![r] =
                  [kind |-> kind, detail |-> detail, id |-> id, tree |-> tree]]
    /\ csess' = [csess EXCEPT ![r] = NoObjects]
    /\ cpc' = [cpc EXCEPT ![r] = "done"]
    /\ chttp' = [chttp EXCEPT ![r] = CommentStatusOf(ccall[r].op, kind, detail)]

\* except ValueError: db.rollback(); raise
\* except Exception as e: db.rollback(); raise Exception(...)
CommentRaise(r, kind, detail) ==
    /\ CommentFinish(r, kind, detail, NoComment, <<>>)
    /\ UNCHANGED comments

\* A request arrives at a comment route; a comment is created only while an
\* id of FewIds is left.
CommentBegin(r, c) ==
    /\ cpc[r] \in {"idle", "done"}
    /\ c.op = "create" => \E k \in FewIds : comments[k].state = "unborn"
    /\ cpc' = [cpc EXCEPT ![r] = "query"]
    /\ ccall' = [ccall EXCEPT ![r] = c]
    /\ csess' = [csess EXCEPT ![r] = NoObjects]
    /\ cret' = [cret EXCEPT ![r] = NoCommentRet]
    /\ chttp' = [chttp EXCEPT ![r] = 0]
    /\ UNCHANGED <<comments, now, ledger>>

\* The clock advances.
Tick ==
    /\ now < MaxTime
    /\ now' = now + 1
    /\ UNCHANGED <<comments, cpc, ccall, csess, cret, chttp, ledger>>

\* create_comment: idea = db.query(Idea)...first(); if not idea: raise
\* ValueError(f"Idea with id {idea_id} not found")
CreateQueryIdea(r) ==
    /\ cpc[r] = "query"
    /\ ccall[r].op = "create"
    /\ IF idea_found(ccall[r].idea_id)
       THEN /\ cpc' = [cpc EXCEPT ![r] = "parent"]
            /\ UNCHANGED <<comments, csess, cret, chttp>>
       ELSE CommentRaise(r, "ValueError", IdeaNotFound)
    /\ UNCHANGED <<now, ccall, ledger>>

\* parent_comment = db.query(Comment).filter(Comment.id == ...).first()
AnyParentFound(r) == TRUE
parent_found(r) == comments[ccall[r].parent_comment_id].state = "present"

\* parent_comment.idea_id != idea_id
AnyParentOfTheIdea(r) == FALSE
parent_of_other_idea(r) ==
    comments[ccall[r].parent_comment_id].idea_id # ccall[r].idea_id

\* create_comment: if parent_comment_id: the parent is looked up; if not
\* parent_comment: raise ValueError(... not found); if parent_comment.idea_id
\* != idea_id: raise ValueError(... does not belong to idea ...)
CreateCheckParent(r) ==
    /\ cpc[r] = "parent"
    /\ IF ccall[r].parent_comment_id = NoComment
       THEN /\ cpc' = [cpc EXCEPT ![r] = "commit"]
            /\ UNCHANGED <<comments, csess, cret, chttp>>
       ELSE IF ~parent_found(r)
       THEN CommentRaise(r, "ValueError", ParentNotFound)
       ELSE IF parent_of_other_idea(r)
       THEN CommentRaise(r, "ValueError", ParentIdeaMismatch)
       ELSE /\ cpc' = [cpc EXCEPT ![r] = "commit"]
            /\ UNCHANGED <<comments, csess, cret, chttp>>
    /\ UNCHANGED <<now, ccall, ledger>>

\* ForeignKey("ideas.id"), ForeignKey("comments.id") of the INSERT.
NoForeignKey(r) == FALSE
comment_fk_violated(r) ==
    \/ ccall[r].idea_id \notin ideas
    \/ /\ ccall[r].parent_comment_id # NoComment
       /\ ccall[r].parent_comment_id \notin Present

\* comment = Comment(id=str(uuid.uuid4()), ..., created_at=datetime.utcnow());
\* db.add(comment); db.commit(); db.refresh(comment); return the dictionary
CreateCommit(r) ==
    /\ cpc[r] = "commit"
    /\ ccall[r].op = "create"
    /\ IF comment_fk_violated(r)
       THEN CommentRaise(r, "Exception", "IntegrityError")
       ELSE /\ comments' = [comments EXCEPT ![uuid4] =
                               Row(ccall[r].idea_id, ccall[r].user_id,
                                   ccall[r].parent_comment_id, now)]
            /\ CommentFinish(r, "dict", "", uuid4, <<>>)
    /\ UNCHANGED <<now, ccall, ledger>>

\* db.query(Comment).filter(Comment.idea_id == idea_id)
\*   .order_by(Comment.created_at.desc()).all(): the idea's comments, newest
\* first, those of equal created_at in any order.
QueryResults(i) ==
    LET S == {c \in Present : comments[c].idea_id = i}
        n == Cardinality(S)
    IN  {rows \in [1..n -> S] :
            /\ \A a, b \in 1..n : a # b => rows[a] # rows[b]
            /\ \A a, b \in 1..n :
                  a < b => comments[rows[a]].created_at >= comments[rows[b]].created_at}

\* sorted(list, key=lambda x: x.created_at, reverse=reverse): stable, so x,
\* the last of the list, goes behind the elements that do not come after it.
Insert(x, out, reverse) ==
    LET before == {k \in 1..Len(out) :
                     IF reverse
                     THEN comments[out[k]].created_at >= comments[x].created_at
                     ELSE comments[out[k]].created_at <= comments[x].created_at}
        n == Cardinality(before)
    IN  SubSeq(out, 1, n) \o <<x>> \o SubSeq(out, n + 1, Len(out))

RECURSIVE sorted(_, _)
sorted(list, reverse) ==
    IF list = <<>> THEN <<>>
    ELSE Insert(list[Len(list)], sorted(SubSeq(list, 1, Len(list) - 1), reverse),
                reverse)

\* sorted(top_level_comments, key=..., reverse=True), sorted(replies, key=...)
SortTopLevel(list) == sorted(list, TRUE)
KeepOrder(list) == list
SortReplies(list) == sorted(list, FALSE)

\* _convert_model_to_dict(comment, include_replies=False)
CommentDict(c) ==
    [id |-> c, idea_id |-> comments[c].idea_id, user_id |-> comments[c].user_id,
     parent_comment_id |-> comments[c].parent_comment_id,
     created_at |-> comments[c].created_at, replies |-> <<>>]

\* build_comment_tree(comment): replies = [c for c in comments if
\* c.parent_comment_id == comment.id]; comment_dict["replies"] =
\* [build_comment_tree(reply) for reply in sorted(replies, ...)]
LeafOnly(c, rows) == CommentDict(c)
RECURSIVE build_comment_tree(_, _)
build_comment_tree(c, rows) ==
    LET replies == SortReplies(SelectSeq(rows,
                       LAMBDA x : comments[x].parent_comment_id = c))
    IN  [CommentDict(c) EXCEPT
            !.replies = [k \in 1..Len(replies) |->
                            build_comment_tree(replies[k], rows)]]

\* get_idea_comments, after its query has returned rows.
get_idea_comments(rows) ==
    LET top_level_comments ==
            SortTopLevel(SelectSeq(rows,
                LAMBDA x : comments[x].parent_comment_id = NoComment))
    IN  [k \in 1..Len(top_level_comments) |->
            build_comment_tree(top_level_comments[k], rows)]

\* get_idea_comments(idea_id): the query and the tree built of its rows.
ListComments(r) ==
    /\ cpc[r] = "query"
    /\ ccall[r].op = "list"
    /\ \E rows \in QueryResults(ccall[r].idea_id) :
          CommentFinish(r, "list", "", NoComment, get_idea_comments(rows))
    /\ UNCHANGED <<comments, now, ccall, ledger>>

\* delete_comment: comment = db.query(Comment)...first(); if not comment:
\* return False
DeleteQueryComment(r) ==
    /\ cpc[r] = "query"
    /\ ccall[r].op = "delete"
    /\ IF ccall[r].comment_id \in Present
       THEN /\ csess' = [csess EXCEPT ![r].comment = comments[ccall[r].comment_id]]
            /\ cpc' = [cpc EXCEPT ![r] = "idea"]
            /\ UNCHANGED <<cret, chttp>>
       ELSE CommentFinish(r, "False", "", NoComment, <<>>)
    /\ UNCHANGED <<comments, now, ccall, ledger>>

\* is_comment_author = comment.user_id == user_id
\* is_idea_owner = (idea.user_id == user_id) if idea.user_id else False
AnyoneMayDelete(r, owner) == TRUE
may_delete(r, owner) ==
    \/ csess[r].comment.user_id = ccall[r].user_id
    \/ IF owner # NoUser THEN owner = ccall[r].user_id ELSE FALSE

\* delete_comment: idea = db.query(Idea).filter(Idea.id == comment.idea_id)
\* .first(); if not idea: return False; the permission check; db.delete(comment)
DeleteCheck(r) ==
    /\ cpc[r] = "idea"
    /\ LET i == csess[r].comment.idea_id IN
       IF ~idea_found(i)
       THEN /\ CommentFinish(r, "False", "", NoComment, <<>>)
            /\ UNCHANGED comments
       ELSE IF ~may_delete(r, idea_owner[i])
       THEN CommentRaise(r, "ValueError", PermissionDenied)
       ELSE /\ csess' = [csess EXCEPT ![r].idea_user_id = idea_owner[i]]
            /\ cpc' = [cpc EXCEPT ![r] = "commit"]
            /\ UNCHANGED <<comments, cret, chttp>>
    /\ UNCHANGED <<now, ccall, ledger>>

\* The flush of db.delete(comment): the relationship Comment.replies (backref
\* of parent_comment) has neither a delete cascade nor passive_deletes, so
\* the session loads the replies and sets their parent_comment_id to NULL
\* (UPDATE) before it deletes the comment's row; ON DELETE CASCADE then
\* finds no row that refers to it.
FlushedDelete(id) ==
    [c \in CommentIds |->
        IF c = id THEN Gone
        ELSE IF comments[c].state = "present" /\ comments[c].parent_comment_id = id
             THEN [comments[c] EXCEPT !.parent_comment_id = NoComment]
        ELSE comments[c]]

\* db.commit() of delete_comment; return True.  A row that is gone by now
\* makes the DELETE match nothing (StaleDataError).
DeleteCommit(r) ==
    /\ cpc[r] = "commit"
    /\ ccall[r].op = "delete"
    /\ IF ccall[r].comment_id \notin Present
       THEN CommentRaise(r, "Exception", "StaleDataError")
       ELSE /\ comments' = FlushedDelete(ccall[r].comment_id)
            /\ CommentFinish(r, "True", "", NoComment, <<>>)
    /\ UNCHANGED <<now, ccall, ledger>>

\* A statement or the commit fails in the store.
CommentFailure(r) ==
    /\ cpc[r] \in {"query", "parent", "idea", "commit"}
    /\ CommentRaise(r, "Exception", "OperationalError")
    /\ UNCHANGED <<now, ccall, ledger>>

(***************************************************************************)
(* Deleting ideas                                                           *)
(***************************************************************************)

\* DELETE /ideas/{idea_id}, authenticated.
DeleteIdeaCalls ==
    [op : {"delete_idea"}, idea_id : IdeaIds, user_id : Users, match : {{}}]

NotOwner == "You do not have permission to delete this idea"

\* The status code the route delete_idea answers with.
DeleteStatusOf(kind, detail) ==
    IF kind = "Exception" THEN 500
    ELSE IF kind = "ValueError"
        THEN IF SaysNotFound(detail) THEN 404
             ELSE IF detail = NotOwner THEN 403
             ELSE 400
    ELSE 200

\* delete_idea ends (finally: db.close()) and the route answers.
DeleteIdeaFinish(r, kind, detail) ==
    /\ ret' = [ret EXCEPT ![r] = [NoRet EXCEPT !.kind = kind, !.detail = detail]]
    /\ sess' = [sess EXCEPT ![r] = EmptySess]
    /\ pc' = [pc EXCEPT ![r] = "done"]
    /\ http' = [http EXCEPT ![r] = DeleteStatusOf(kind, detail)]

\* idea = db.query(Idea).filter(Idea.id == idea_id).first()
\* if not idea: raise ValueError; if idea.user_id != user_id: raise ValueError
\* db.delete(idea)
DeleteIdeaQuery(r) ==
    /\ pc[r] = "query"
    /\ call[r].op = "delete_idea"
    /\ LET i == call[r].idea_id IN
       IF ~idea_found(i)
       THEN DeleteIdeaFinish(r, "ValueError", IdeaNotFound)
       ELSE IF idea_owner[i] # call[r].user_id
       THEN DeleteIdeaFinish(r, "ValueError", NotOwner)
       ELSE /\ sess' = [sess EXCEPT ![r] =
                          [@ EXCEPT !.loaded = {i}, !.upv[i] = upvotes[i],
                                    !.pending = "delete_idea"]]
            /\ pc' = [pc EXCEPT ![r] = "commit"]
            /\ UNCHANGED <<ret, http>>
    /\ UNCHANGED <<db, call, msg, pre, prev, overlap, elsewhere>>

\* The IdeaUpvote and Comment rows of idea i: the collections upvote_records
\* and comments that the backrefs of IdeaUpvote.idea and Comment.idea give
\* an Idea, as the flush loads them.
upvote_records(i) == {u \in Users : idea_upvotes[<<u, i>>] > 0}
comments_of(i) == {c \in Present : comments[c].idea_id = i}

\* The flush of a deleted Idea.  Neither backref has cascade="all, delete"
\* or passive_deletes, so the unit of work first detaches the children it
\* loaded: UPDATE idea_upvotes SET idea_id = NULL and UPDATE comments SET
\* idea_id = NULL, both columns NOT NULL.
nulls_required_column(i) == upvote_records(i) # {} \/ comments_of(i) # {}

\* db.commit() of delete_idea: the flush, DELETE FROM ideas (ON DELETE
\* CASCADE takes the rows that still reference the idea), COMMIT; an error
\* of the flush is caught by "except Exception".
DeleteIdeaCommit(r) ==
    /\ pc[r] = "commit"
    /\ call[r].op = "delete_idea"
    /\ LET i == call[r].idea_id IN
       IF nulls_required_column(i)
       THEN /\ DeleteIdeaFinish(r, "Exception", "IntegrityError")
            /\ UNCHANGED <<db, views, idea_owner, comments>>
       ELSE /\ DeleteIdeaFinish(r, "None", "")
            /\ ideas' = ideas \ {i}
            /\ upvotes' = [upvotes EXCEPT ![i] = 0]
            /\ views' = [views EXCEPT ![i] = 0]
            /\ idea_owner' = [idea_owner EXCEPT ![i] = NoUser]
            /\ idea_upvotes' = [p \in Users \X IdeaIds |->
                                  IF p[2] = i THEN 0 ELSE idea_upvotes[p]]
            /\ comments' = [c \in CommentIds |->
                              IF comments[c].state = "present" /\ comments[c].idea_id = i
                              THEN Gone ELSE comments[c]]
    /\ UNCHANGED <<call, msg, pre, prev, overlap, sweep, now, cpc, ccall, csess,
                   cret, chttp, chat, services>>

(***************************************************************************)
(* Streaming chat                                                           *)
(***************************************************************************)

\* What the chat handler never writes.
beside == <<ideas, upvotes, idea_upvotes, views, idea_owner, pc, call, sess, ret,
            http, msg, pre, prev, overlap, sweep, comments, now, cpc, ccall, csess,
            cret, chttp, services>>

\* str.strip(): the text without its leading and trailing spaces.
RECURSIVE LStrip(_)
LStrip(text) ==
    IF text # <<>> /\ Head(text) = Space THEN LStrip(Tail(text)) ELSE text
RECURSIVE RStrip(_)
RStrip(text) ==
    IF text # <<>> /\ text[Len(text)] = Space
    THEN RStrip(SubSeq(text, 1, Len(text) - 1))
    ELSE text
Strip(text) == RStrip(LStrip(text))

\* generate_ai_reply_stream cuts the reply into tokens in one of two ways:
\*   "mock" - for word in mock_response.split(): yield word + " "
\*   "api"  - for i, word in enumerate(words): if i > 0: yield " "; yield word
Styles == {"mock", "api"}
Tokens(style, words) == IF style = "mock" THEN words ELSE 2 * words - 1
Token(style, k) ==
    IF style = "mock" THEN <<k, Space>>
    ELSE IF k % 2 = 1 THEN <<(k + 1) \div 2>>
    ELSE <<Space>>

Message(sender, text) == [sender |-> sender, message |-> text]

\* POST /chat/send with stream=true and a message that is not empty, for
\* the chat of the model (given: its chat_id is in the request) or for a
\* new chat.
SendStream(given, text, style, words) ==
    /\ stream.pc \in {"idle", "done"}
    /\ given => chat_title # NoChat
    /\ (IF given THEN Len(chat_messages) ELSE 0) + 2 <= MaxMessages
    /\ stream' = [NoStream EXCEPT !.pc = IF given THEN "save_user" ELSE "create",
                                  !.message = text, !.style = style,
                                  !.words = words]
    /\ UNCHANGED <<chat_messages, chat_title, beside>>

\* if not chat_id: chat = chat_service.create_chat(user_id): a chat row
\* with title None; the model follows this chat from now on.
CreateChat ==
    /\ stream.pc = "create"
    /\ chat_title' = NoTitle
    /\ chat_messages' = <<>>
    /\ stream' = [stream EXCEPT !.pc = "save_user"]
    /\ UNCHANGED beside

\* chat_service.save_message(chat_id, "user", message)
SaveUserMessage ==
    /\ stream.pc = "save_user"
    /\ chat_messages' = Append(chat_messages, Message("user", stream.message))
    /\ stream' = [stream EXCEPT !.pc = "history"]
    /\ UNCHANGED <<chat_title, beside>>

\* history = chat_service.get_chat_messages(chat_id); full_response = "";
\* return StreamingResponse(generate_stream(), ...)
ReadHistory ==
    /\ stream.pc = "history"
    /\ stream' = [stream EXCEPT !.pc = "stream", !.status = 200]
    /\ UNCHANGED <<chat_messages, chat_title, beside>>

\* One turn of "async for token in generate_ai_reply_stream(...)":
\* full_response += token; yield the token's event
NextToken ==
    /\ stream.pc = "stream"
    /\ stream.produced < Tokens(stream.style, stream.words)
    /\ stream' = [stream EXCEPT
                    !.produced = @ + 1,
                    !.full_response = @ \o Token(stream.style, stream.produced + 1)]
    /\ UNCHANGED <<chat_messages, chat_title, beside>>

\* The generator is exhausted: yield the "done" event.
StreamCompletes ==
    /\ stream.pc = "stream"
    /\ stream.produced = Tokens(stream.style, stream.words)
    /\ stream' = [stream EXCEPT !.pc = "finally", !.ending = "completed"]
    /\ UNCHANGED <<chat_messages, chat_title, beside>>

\* The token stream raises: except Exception as e: yield the "error" event.
StreamFails ==
    /\ stream.pc = "stream"
    /\ stream' = [stream EXCEPT !.pc = "finally", !.ending = "exception"]
    /\ UNCHANGED <<chat_messages, chat_title, beside>>

\* The client goes away or the task is cancelled: the generator, suspended
\* in its try block, is closed (GeneratorExit, CancelledError), which
\* "except Exception" does not catch.
StreamCutOff ==
    /\ stream.pc = "stream"
    /\ stream' = [stream EXCEPT !.pc = "finally", !.ending = "cut_off"]
    /\ UNCHANGED <<chat_messages, chat_title, beside>>

\* finally: runs however the try block ended.
OnlyAfterCompletion(ending) == ending = "completed"
RunsFinally(ending) == TRUE

\* finally: if full_response: chat_service.save_message(chat_id,
\* "assistant", full_response.strip())
SaveAssistantMessage ==
    /\ stream.pc = "finally"
    /\ chat_messages' =
         IF RunsFinally(stream.ending) /\ stream.full_response # <<>>
         THEN Append(chat_messages, Message("assistant", Strip(stream.full_response)))
         ELSE chat_messages
    /\ stream' = [stream EXCEPT !.pc = "title"]
    /\ UNCHANGED <<chat_title, beside>>

\* " ".join(list): the words of the list with one space between them.
RECURSIVE Join(_)
Join(list) ==
    IF Len(list) <= 1 THEN list
    ELSE <<Head(list), Space>> \o Join(Tail(list))

\* generate_chat_title: " ".join(first_user_message.strip().split()[:3]),
\* "New Chat" when that is empty (the limit of 50 characters is beyond the
\* texts of the model).
TitleWords == 3
IsWord(x) == x # Space
GeneratedTitle(text) ==
    LET words == SelectSeq(Strip(text), IsWord)
        title == Join(SubSeq(words, 1, IF Len(words) < TitleWords THEN Len(words)
                                       ELSE TitleWords))
    IN  IF title # <<>> THEN title ELSE "New Chat"

\* messages = chat_service.get_chat_messages(chat_id)
\* if len(messages) == 2: the first message of sender "user", if any, gives
\* the title: chat_service.update_chat_title(chat_id, title)
UpdateTitle ==
    /\ stream.pc = "title"
    /\ chat_title' =
         IF /\ Len(chat_messages) = 2
            /\ \E k \in 1..Len(chat_messages) : chat_messages[k].sender = "user"
         THEN GeneratedTitle(
                  chat_messages[CHOOSE k \in 1..Len(chat_messages) :
                                    /\ chat_messages[k].sender = "user"
                                    /\ \A j \in 1..(k - 1) :
                                          chat_messages[j].sender # "user"].message)
         ELSE chat_title
    /\ stream' = [stream EXCEPT !.pc = "done"]
    /\ UNCHANGED <<chat_messages, beside>>

\* A call of chat_service fails in the store (db.rollback(); raise
\* Exception): before the response it gives a 500, in the finally block it
\* ends the generator.
ChatStoreFailure ==
    /\ stream.pc \in {"create", "save_user", "history", "finally", "title"}
    /\ stream.pc = "finally" => stream.full_response # <<>>
    /\ stream' = [stream EXCEPT
                    !.pc = "done",
                    !.failed = TRUE,
                    !.status = IF stream.pc \in {"create", "save_user", "history"}
                               THEN 500 ELSE @]
    /\ UNCHANGED <<chat_messages, chat_title, beside>>

(***************************************************************************)
(* GET /chat/empty                                                          *)
(***************************************************************************)

\* What the handler of GET /chat/empty never writes.
aside == <<ideas, upvotes, idea_upvotes, views, idea_owner, pc, call, sess, ret,
           http, msg, pre, prev, overlap, sweep, comments, now, cpc, ccall, csess,
           cret, chttp, chat, llm, ws>>

\* The chats of the user that have no message.
EmptyChats == {k \in ChatIds : user_chats[k] = "empty"}

\* GET /chat/empty arrives; a chat can be created while an id is left.
GetEmpty(r) ==
    /\ getter[r].pc \in {"idle", "done"}
    /\ \E k \in ChatIds : user_chats[k] = "unborn"
    /\ getter' = [getter EXCEPT ![r] = [NoGetter EXCEPT !.pc = "query"]]
    /\ UNCHANGED <<user_chats, aside>>

\* empty_chat = chat_service.get_empty_chat(user_id): the user's chats, and
\* for each the count of its messages; the first without messages, if any;
\* if empty_chat: return it
QueryEmpty(r) ==
    /\ getter[r].pc = "query"
    /\ IF EmptyChats # {}
       THEN \E k \in EmptyChats :
               getter' = [getter EXCEPT ![r] =
                            [pc |-> "done", chat_id |-> k, status |-> 200]]
       ELSE getter' = [getter EXCEPT ![r].pc = "create"]
    /\ UNCHANGED <<user_chats, aside>>

\* else: chat = chat_service.create_chat(user_id); return it
CreateEmpty(r) ==
    /\ getter[r].pc = "create"
    /\ \E k \in ChatIds :
          /\ user_chats[k] = "unborn"
          /\ user_chats' = [user_chats EXCEPT ![k] = "empty"]
          /\ getter' = [getter EXCEPT ![r] =
                          [pc |-> "done", chat_id |-> k, status |-> 200]]
    /\ UNCHANGED aside

\* except Exception: 500, when a call of chat_service fails in the store.
GetEmptyFailure(r) ==
    /\ getter[r].pc \in {"query", "create"}
    /\ getter' = [getter EXCEPT ![r] =
                    [pc |-> "done", chat_id |-> NoChat, status |-> 500]]
    /\ UNCHANGED <<user_chats, aside>>

\* chat_service.save_message(chat_id, "user", message) of POST /chat/send
\* with the id of a chat without messages: the chat has a message.
FirstMessage(k) ==
    /\ user_chats[k] = "empty"
    /\ user_chats' = [user_chats EXCEPT ![k] = "used"]
    /\ UNCHANGED <<getter, aside>>

(***************************************************************************)
(* Sessions of the agent API (llm_service.py)                               *)
(***************************************************************************)

\* What generate_ai_reply never writes.
beyond == <<ideas, upvotes, idea_upvotes, views, idea_owner, pc, call, sess, ret,
            http, msg, pre, prev, overlap, sweep, comments, now, cpc, ccall, csess,
            cret, chttp, chat, user_chats, getter, ws>>

\* generate_ai_reply(messages_list, chat_id) is called, with the id of a chat
\* or without one; coroutines of one event loop interleave at their awaits.
AiReply(r, k) ==
    /\ caller[r].pc \in {"idle", "done"}
    /\ caller' = [caller EXCEPT ![r] =
                    [NoCaller EXCEPT !.pc = "health", !.chat_id = k]]
    /\ UNCHANGED <<session_map, sessions, beyond>>

\* if not await _check_api_health(): return the mock response.  When the
\* API is healthy the code runs on without an await: _get_or_create_session
\* returns the session of the map, if chat_id is in it, and otherwise, as
\* without chat_id, _create_session sends its POST.
CheckHealth(r, healthy) ==
    /\ caller[r].pc = "health"
    /\ LET k == caller[r].chat_id IN
       caller' = [caller EXCEPT ![r] =
                    IF ~healthy
                        THEN [@ EXCEPT !.pc = "done", !.outcome = "unhealthy"]
                    ELSE IF k # NoChat /\ session_map[k] # NoSession
                        THEN [@ EXCEPT !.pc = "chat", !.session_id = session_map[k]]
                    ELSE [@ EXCEPT !.pc = "create"]]
    /\ UNCHANGED <<session_map, sessions, beyond>>

\* if session_id: _chat_to_session_map[chat_id] = session_id
Recorded(r, x) ==
    IF caller[r].chat_id # NoChat
    THEN [session_map EXCEPT ![caller[r].chat_id] = x]
    ELSE session_map

\* _create_session: the POST /sessions answers 200 with a new session_id;
\* with a chat_id the session is recorded in the map; then the message is
\* sent with the POST /chat/{session_id}.
CreateSession(r) ==
    /\ caller[r].pc = "create"
    /\ \E x \in SessionIds :
          /\ sessions[x] = "unborn"
          /\ sessions' = [sessions EXCEPT ![x] = "live"]
          /\ session_map' = Recorded(r, x)
          /\ caller' = [caller EXCEPT ![r] = [@ EXCEPT !.pc = "chat", !.session_id = x]]
    /\ UNCHANGED beyond

\* _create_session returns None (another status, or an exception):
\* if not session_id: return the mock response.
CreateSessionFails(r) ==
    /\ caller[r].pc = "create"
    /\ caller' = [caller EXCEPT ![r] = [@ EXCEPT !.pc = "done", !.outcome = "no_session"]]
    /\ UNCHANGED <<session_map, sessions, beyond>>

\* How response = await client.post(.../chat/{session_id}) can end.
Outcomes == {"ok", "empty", "not_200", "timeout", "exception"}

\* if response.status_code == 200: ...; if not chat_id and session_id:
\* await _delete_session(session_id); return the response or, if it is
\* empty, the mock response.  else, except httpx.TimeoutException, except
\* Exception: return the mock response.
ChatAnswers(r, outcome) ==
    /\ caller[r].pc = "chat"
    /\ caller' = [caller EXCEPT ![r] =
                    [@ EXCEPT !.outcome = outcome,
                              !.pc = IF outcome \in {"ok", "empty"}
                                        /\ caller[r].chat_id = NoChat
                                     THEN "delete" ELSE "done"]]
    /\ UNCHANGED <<session_map, sessions, beyond>>

\* _delete_session(session_id): the DELETE /sessions/{session_id}, whose
\* exceptions are printed and whose status is not looked at.
DeleteSession(r, done) ==
    /\ caller[r].pc = "delete"
    /\ sessions' = IF done THEN [sessions EXCEPT ![caller[r].session_id] = "deleted"]
                   ELSE sessions
    /\ caller' = [caller EXCEPT ![r] =
                    [@ EXCEPT !.pc = "done",
                              !.deleted = IF done THEN "done" ELSE "failed"]]
    /\ UNCHANGED <<session_map, beyond>>

(***************************************************************************)
(* ConnectionManager (routes/websocket.py)                                  *)
(***************************************************************************)

\* What the ConnectionManager never writes.
apart == <<ideas, upvotes, idea_upvotes, views, idea_owner, pc, call, sess, ret,
           http, msg, pre, prev, overlap, sweep, comments, now, cpc, ccall, csess,
           cret, chttp, chat, user_chats, getter, llm>>

\* self.active_connections[idea_id], for a key of the dictionary.
Registered(i) == IF i \in DOMAIN active_connections THEN active_connections[i] ELSE {}

\* connect(websocket, idea_id): await websocket.accept(); the set of the
\* idea is created if the key is missing; the websocket is added to it.
Connect(w, i) ==
    /\ sockets[w] = "unused"
    /\ sockets' = [sockets EXCEPT ![w] = "open"]
    /\ active_connections' =
         [j \in DOMAIN active_connections \cup {i} |->
             IF j = i THEN Registered(i) \cup {w} ELSE active_connections[j]]
    /\ UNCHANGED <<caster, apart>>

\* The client of an accepted websocket goes away.
Close(w) ==
    /\ sockets[w] = "open"
    /\ sockets' = [sockets EXCEPT ![w] = "closed"]
    /\ UNCHANGED <<active_connections, caster, apart>>

\* disconnect(websocket, idea_id): if idea_id in self.active_connections:
\* discard the websocket; if the set is empty now: del the key.
disconnect(conns, ws_gone, i) ==
    IF i \notin DOMAIN conns THEN conns
    ELSE IF conns[i] \ ws_gone = {}
        THEN [j \in DOMAIN conns \ {i} |-> conns[j]]
    ELSE [j \in DOMAIN conns |-> IF j = i THEN conns[j] \ ws_gone ELSE conns[j]]

\* websocket_idea_updates: receive_text raises WebSocketDisconnect on a
\* closed websocket: manager.disconnect(websocket, idea_id)
HandlerDisconnects(w, i) ==
    /\ sockets[w] = "closed"
    /\ w \in Registered(i)
    /\ active_connections' = disconnect(active_connections, {w}, i)
    /\ UNCHANGED <<sockets, caster, apart>>

\* next() of "for connection in self.active_connections[idea_id]", the
\* iterator of a Python set: RuntimeError("Set changed size during
\* iteration") when the set has not the size it had when the iteration
\* began; otherwise a connection not reached yet.  The connections that have
\* been in the set from the start are all reached; one added meanwhile (in
\* place of one discarded) is reached or not.
NextOf(c, conns) ==
    LET now_in == IF c.idea_id \in DOMAIN conns THEN conns[c.idea_id] ELSE {}
        left == now_in \ c.visited
    IN  IF Cardinality(now_in) # c.used
            THEN {[c EXCEPT !.pc = "done", !.to = NoConn, !.raised = "RuntimeError"]}
        ELSE {[c EXCEPT !.pc = "sending", !.to = w, !.visited = @ \cup {w}] :
                 w \in left}
             \cup (IF left \cap c.at_start = {}
                   THEN {[c EXCEPT !.pc = "cleanup", !.to = NoConn]}
                   ELSE {})

\* broadcast_to_idea(idea_id, message): if idea_id in self.active_connections:
\* disconnected = set(); the loop begins and awaits its first send_json.
Broadcast(i) ==
    /\ caster.pc \in {"idle", "done"}
    /\ IF i \in DOMAIN active_connections
       THEN caster' \in NextOf([NoCaster EXCEPT !.idea_id = i,
                                                !.at_start = active_connections[i],
                                                !.used = Cardinality(active_connections[i])],
                               active_connections)
       ELSE caster' = [NoCaster EXCEPT !.pc = "done", !.idea_id = i]
    /\ UNCHANGED <<active_connections, sockets, apart>>

\* await connection.send_json(message) returns, or raises on a closed
\* websocket (except Exception: disconnected.add(connection)); the loop
\* goes on to its next connection.
SendReturns ==
    /\ caster.pc = "sending"
    /\ LET w == caster.to
           c == IF sockets[w] = "open"
                THEN [caster EXCEPT !.sent = @ \cup {w}]
                ELSE [caster EXCEPT !.disconnected = @ \cup {w}]
       IN  caster' \in NextOf(c, active_connections)
    /\ UNCHANGED <<active_connections, sockets, apart>>

\* for connection in disconnected: self.disconnect(connection, idea_id)
RemoveDisconnected ==
    /\ caster.pc = "cleanup"
    /\ active_connections' =
         disconnect(active_connections, caster.disconnected, caster.idea_id)
    /\ caster' = [caster EXCEPT !.pc = "done"]
    /\ UNCHANGED <<sockets, apart>>

(***************************************************************************)
(* Specifications                                                           *)
(***************************************************************************)

UpvoteStep(r) ==
    \/ QueryIdea(r)
    \/ CheckExisting(r)
    \/ SyncUpvoteCount(r)
    \/ CommitUpvote(r)
    \/ Refresh(r)
    \/ StorageFailure(r)
    \/ RefreshFailure(r)
    \/ \E delivered \in BOOLEAN : BroadcastAndRespond(r, delivered)

ReadStep(r) ==
    \/ GetCount(r)
    \/ QueryAll(r)
    \/ \E i \in IdeaIds : ListCount(r, i)
    \/ CommitRead(r)

\* Requests of several server processes, interleaved statement by statement,
\* about the one idea of the table or about an id that is not in it.
Next ==
    \/ ideas = {} /\ \E i \in IdeaIds, v \in 0..MaxInitUpvotes : AddIdea(i, v, NoUser)
    \/ \E r \in Reqs :
        \/ \E c \in UpvoteCalls : Begin(r, c)
        \/ UpvoteStep(r)

Spec == Init /\ [][Next]_vars

\* One request at a time.
SeqReq == CHOOSE r \in Reqs : TRUE

SeqNext ==
    \/ Quiet /\ \E i \in IdeaIds, v \in 0..MaxInitUpvotes : AddIdea(i, v, NoUser)
    \/ \E c \in UpvoteCalls \cup ReadCalls : BeginSeq(SeqReq, c)
    \/ UpvoteStep(SeqReq)
    \/ ReadStep(SeqReq)

SeqSpec == Init /\ [][SeqNext]_vars

\* The repair calls, one at a time, on a database as the calls above can
\* leave it: any ideas, any cached counters, any rows of the ideas.
RepairInit ==
    /\ ideas \in SUBSET IdeaIds
    /\ upvotes \in [IdeaIds -> 0..MaxInitUpvotes]
    /\ \A i \in IdeaIds \ ideas : upvotes[i] = 0
    /\ idea_upvotes \in [Users \X IdeaIds -> {0, 1}]
    /\ \A p \in Users \X IdeaIds : p[2] \notin ideas => idea_upvotes[p] = 0
    /\ views = [i \in IdeaIds |-> 0]
    /\ idea_owner = [i \in IdeaIds |-> NoUser]
    /\ pc = [r \in Reqs |-> "idle"]
    /\ call = [r \in Reqs |-> NoCall]
    /\ sess = [r \in Reqs |-> EmptySess]
    /\ ret = [r \in Reqs |-> NoRet]
    /\ http = [r \in Reqs |-> 0]
    /\ msg = [r \in Reqs |-> NoMsg]
    /\ pre = [r \in Reqs |-> 0]
    /\ prev = NoPrev
    /\ overlap = {}
    /\ sweep = NoSweep
    /\ NoComments
    /\ NoChats

\* Upvote and view calls, one at a time, on the one idea of the table or on
\* an id that is not in it.
NotifyNext ==
    \/ ideas = {} /\ \E i \in IdeaIds, v \in 0..MaxInitUpvotes : AddIdea(i, v, NoUser)
    \/ \E c \in UpvoteCalls : Begin(SeqReq, c)
    \/ \E c \in ViewCalls : views[c.idea_id] < MaxViews /\ Begin(SeqReq, c)
    \/ UpvoteStep(SeqReq)
    \/ ViewQuery(SeqReq)
    \/ ViewCommit(SeqReq)

NotifySpec == Init /\ [][NotifyNext]_vars

\* The comment calls, one at a time, on two ideas: one owned by a user, one
\* without owner.
CommentInit ==
    /\ ideas = IdeaIds
    /\ upvotes = [i \in IdeaIds |-> 0]
    /\ idea_upvotes = [p \in Users \X IdeaIds |-> 0]
    /\ views = [i \in IdeaIds |-> 0]
    /\ idea_owner = [i \in IdeaIds |-> IF i = "i1" THEN "u1" ELSE NoUser]
    /\ pc = [r \in Reqs |-> "idle"]
    /\ call = [r \in Reqs |-> NoCall]
    /\ sess = [r \in Reqs |-> EmptySess]
    /\ ret = [r \in Reqs |-> NoRet]
    /\ http = [r \in Reqs |-> 0]
    /\ msg = [r \in Reqs |-> NoMsg]
    /\ pre = [r \in Reqs |-> 0]
    /\ prev = NoPrev
    /\ overlap = {}
    /\ sweep = NoSweep
    /\ NoComments
    /\ NoChats

CommentStep(r) ==
    \/ CreateQueryIdea(r)
    \/ CreateCheckParent(r)
    \/ CreateCommit(r)
    \/ ListComments(r)
    \/ DeleteQueryComment(r)
    \/ DeleteCheck(r)
    \/ DeleteCommit(r)
    \/ CommentFailure(r)

CommentNext ==
    \/ Tick
    \/ \E c \in CommentCalls : CommentBegin(SeqReq, c)
    \/ CommentStep(SeqReq)

CommentSpec == CommentInit /\ [][CommentNext]_vars

\* The tables create_comment can have built with the first k ids of IdOrder,
\* handed out in this order while the clock ran: each comment is on an idea,
\* is top-level or a reply to an earlier comment of its idea, and is not
\* older than the comment before it.
RECURSIVE Tables(_)
Tables(k) ==
    IF k = 0 THEN {[c \in CommentIds |-> Unborn]}
    ELSE LET id == IdOrder[k]
             earlier == {IdOrder[j] : j \in 1..(k - 1)}
             full == {t \in Tables(k - 1) : \A c \in earlier : t[c].state = "present"}
             since(t) == IF k = 1 THEN 1 ELSE t[IdOrder[k - 1]].created_at
             parents(t, i) == {NoComment} \cup {c \in earlier : t[c].idea_id = i}
         IN  Tables(k - 1) \cup
             UNION {UNION {{[t EXCEPT ![id] = Row(i, "u1", p, at)] :
                               p \in parents(t, i), at \in since(t)..MaxTime} :
                           i \in IdeaIds} :
                    t \in full}

\* get_idea_comments on every such table.
TreeInit ==
    /\ ideas = IdeaIds
    /\ upvotes = [i \in IdeaIds |-> 0]
    /\ idea_upvotes = [p \in Users \X IdeaIds |-> 0]
    /\ views = [i \in IdeaIds |-> 0]
    /\ idea_owner = [i \in IdeaIds |-> NoUser]
    /\ pc = [r \in Reqs |-> "idle"]
    /\ call = [r \in Reqs |-> NoCall]
    /\ sess = [r \in Reqs |-> EmptySess]
    /\ ret = [r \in Reqs |-> NoRet]
    /\ http = [r \in Reqs |-> 0]
    /\ msg = [r \in Reqs |-> NoMsg]
    /\ pre = [r \in Reqs |-> 0]
    /\ prev = NoPrev
    /\ overlap = {}
    /\ sweep = NoSweep
    /\ comments \in Tables(Len(IdOrder))
    /\ now = MaxTime
    /\ cpc = [r \in Reqs |-> "idle"]
    /\ ccall = [r \in Reqs |-> NoCommentCall]
    /\ csess = [r \in Reqs |-> NoObjects]
    /\ cret = [r \in Reqs |-> NoCommentRet]
    /\ chttp = [r \in Reqs |-> 0]
    /\ NoChats

TreeNext ==
    \/ \E c \in ListCalls : CommentBegin(SeqReq, c)
    \/ ListComments(SeqReq)

TreeSpec == TreeInit /\ [][TreeNext]_vars

RepairStep(r) ==
    \/ RecountSync(r)
    \/ SyncAllQuery(r)
    \/ \E i \in IdeaIds : SyncAllCount(r, i)
    \/ RepairCommit(r)
    \/ RepairFailure(r)

RepairNext ==
    \/ \E c \in RepairCalls : BeginSeq(SeqReq, c)
    \/ RepairStep(SeqReq)

RepairSpec == RepairInit /\ [][RepairNext]_vars

\* Upvote calls and delete_idea, one at a time, on two ideas with owners;
\* table comments is empty or holds one comment on one of the ideas.
DeleteInit ==
    /\ ideas = IdeaIds
    /\ upvotes = [i \in IdeaIds |-> 0]
    /\ idea_upvotes = [p \in Users \X IdeaIds |-> 0]
    /\ views = [i \in IdeaIds |-> 0]
    /\ idea_owner = [i \in IdeaIds |-> IF i = "i1" THEN "u1" ELSE "u2"]
    /\ pc = [r \in Reqs |-> "idle"]
    /\ call = [r \in Reqs |-> NoCall]
    /\ sess = [r \in Reqs |-> EmptySess]
    /\ ret = [r \in Reqs |-> NoRet]
    /\ http = [r \in Reqs |-> 0]
    /\ msg = [r \in Reqs |-> NoMsg]
    /\ pre = [r \in Reqs |-> 0]
    /\ prev = NoPrev
    /\ overlap = {}
    /\ sweep = NoSweep
    /\ comments \in {[c \in CommentIds |-> Unborn]}
                    \cup {[[c \in CommentIds |-> Unborn]
                              EXCEPT ![IdOrder[1]] = Row(i, "u1", NoComment, 1)] :
                          i \in IdeaIds}
    /\ now = 1
    /\ cpc = [r \in Reqs |-> "idle"]
    /\ ccall = [r \in Reqs |-> NoCommentCall]
    /\ csess = [r \in Reqs |-> NoObjects]
    /\ cret = [r \in Reqs |-> NoCommentRet]
    /\ chttp = [r \in Reqs |-> 0]
    /\ NoChats

DeleteNext ==
    \/ \E c \in UpvoteCalls \cup DeleteIdeaCalls : Quiet /\ Begin(SeqReq, c)
    \/ UpvoteStep(SeqReq)
    \/ DeleteIdeaQuery(SeqReq)
    \/ DeleteIdeaCommit(SeqReq)

DeleteSpec == DeleteInit /\ [][DeleteNext]_vars

\* Streaming chat requests, one at a time, on one chat.
ChatNext ==
    \/ \E given \in BOOLEAN, text \in UserTexts, style \in Styles,
          words \in 1..MaxWords :
          SendStream(given, text, style, words)
    \/ CreateChat
    \/ SaveUserMessage
    \/ ReadHistory
    \/ NextToken
    \/ StreamCompletes
    \/ StreamFails
    \/ StreamCutOff
    \/ SaveAssistantMessage
    \/ UpdateTitle
    \/ ChatStoreFailure

ChatSpec == Init /\ [][ChatNext]_vars

\* create_comment and delete_comment calls of several server processes,
\* interleaved statement by statement, at one time of the clock; one user
\* writes the comments, any user deletes.
ForestCalls ==
    {c \in CommentCalls :
        \/ c.op = "create" /\ c.user_id = "u1"
        \/ c.op = "delete"}

ForestNext ==
    \E r \in Reqs :
        \/ \E c \in ForestCalls : CommentBegin(r, c)
        \/ CreateQueryIdea(r)
        \/ CreateCheckParent(r)
        \/ CreateCommit(r)
        \/ DeleteQueryComment(r)
        \/ DeleteCheck(r)
        \/ DeleteCommit(r)

ForestSpec == CommentInit /\ [][ForestNext]_vars

\* increment_views calls of several server processes, one call per request
\* slot, interleaved statement by statement, on an idea added with views 0.
ViewNext ==
    \/ ideas = {} /\ \E i \in IdeaIds : AddIdea(i, 0, NoUser)
    \/ \E r \in Reqs :
        \/ \E c \in ViewCalls : pc[r] = "idle" /\ Begin(r, c)
        \/ ViewQuery(r)
        \/ ViewCommit(r)
        \/ Refresh(r)
        \/ StorageFailure(r)
        \/ \E delivered \in BOOLEAN : BroadcastAndRespond(r, delivered)

ViewSpec == Init /\ [][ViewNext]_vars

\* GET /chat/empty requests of several server processes, interleaved call
\* by call of chat_service, and first messages sent to the chats.
EmptyNext ==
    \/ \E k \in ChatIds : FirstMessage(k)
    \/ \E r \in Reqs :
        \/ GetEmpty(r)
        \/ QueryEmpty(r)
        \/ CreateEmpty(r)
        \/ GetEmptyFailure(r)

EmptySpec == Init /\ [][EmptyNext]_vars

\* Calls of generate_ai_reply in the coroutines of one event loop, for one
\* chat or without a chat_id.
ReplyChats == {NoChat, "k1"}

ReplyNext ==
    \E r \in Reqs :
        \/ \E k \in ReplyChats :
              (\E x \in SessionIds : sessions[x] = "unborn") /\ AiReply(r, k)
        \/ \E healthy \in BOOLEAN : CheckHealth(r, healthy)
        \/ CreateSession(r)
        \/ CreateSessionFails(r)
        \/ \E outcome \in Outcomes : ChatAnswers(r, outcome)
        \/ \E done \in BOOLEAN : DeleteSession(r, done)

ReplySpec == Init /\ [][ReplyNext]_vars

\* The clients of one idea connect and go away while broadcasts to the idea
\* run, all in one event loop.
WsIdea == "i1"

WsNext ==
    \/ \E w \in Conns : Connect(w, WsIdea)
    \/ \E w \in Conns : Close(w)
    \/ \E w \in Conns : HandlerDisconnects(w, WsIdea)
    \/ Broadcast(WsIdea)
    \/ SendReturns
    \/ RemoveDisconnected

WsSpec == Init /\ [][WsNext]_vars

(***************************************************************************)
(* Properties                                                               *)
(***************************************************************************)

\* The number of IdeaUpvote rows of idea i in the committed table.
LedgerCount(i) == SumRows(idea_upvotes, i, Users)

Succeeded(r, ops) ==
    /\ pc[r] = "done"
    /\ call[r].op \in ops
    /\ http[r] = 200

\* The call of r follows a successful call of operation op with the same
\* idea and user.
Follows(r, op) ==
    /\ prev.op = op
    /\ prev.kind = "dict"
    /\ prev.idea_id = call[r].idea_id
    /\ prev.user_id = call[r].user_id

\* C1: with calls executed one at a time, whenever addUpvote or removeUpvote
\* has succeeded, the committed ideas.upvotes of its idea equals the number
\* of IdeaUpvote rows of the idea, and so does the count it returned.
C1_CounterEqualsLedger ==
    \A r \in Reqs :
        Succeeded(r, {"add", "remove"}) =>
            LET i == call[r].idea_id IN
            /\ upvotes[i] = LedgerCount(i)
            /\ ret[r].upv[i] = LedgerCount(i)

\* C2: in every committed state there is at most one IdeaUpvote row per
\* (user_id, idea_id), whatever the interleaving of the requests.
C2_OneRowPerPair ==
    \A p \in Users \X IdeaIds : idea_upvotes[p] <= 1

\* Two addUpvote calls for one pair ran at the same time, both passed the
\* existence check, one inserted and the other was refused by the constraint.
C2_Witness ==
    \E r, q \in Reqs :
        /\ <<r, q>> \in overlap
        /\ call[r] = call[q]
        /\ Succeeded(r, {"add"})
        /\ pc[q] = "done"
        /\ ret[q].detail = "IntegrityError"
        /\ idea_upvotes[Pair(r)] = 1

\* C3: an addUpvote that passed the existence check and whose INSERT the
\* unique constraint then refuses (a concurrent addUpvote of the same pair
\* committed in between) ends as AlreadyUpvoted: ValueError, HTTP 400.
C3_LoserSeesAlreadyUpvoted ==
    [][\A r \in Reqs :
        ( /\ pc[r] = "commit"
          /\ call[r].op = "add"
          /\ sess[r].pending = "insert"
          /\ idea_upvotes[Pair(r)] > 0
          /\ pc'[r] = "done"
          /\ ret'[r].detail # "OperationalError" )
        => (ret'[r].kind = "ValueError" /\ http'[r] = 400)]_vars

\* C4: when two addUpvote/removeUpvote calls for one idea and different
\* users ran at the same time and both have succeeded, ideas.upvotes of the
\* idea equals the number of its IdeaUpvote rows.
C4_ConcurrentCounterEqualsLedger ==
    \A r, q \in Reqs :
        ( /\ <<r, q>> \in overlap
          /\ Succeeded(r, {"add", "remove"})
          /\ Succeeded(q, {"add", "remove"})
          /\ call[r].idea_id = call[q].idea_id
          /\ call[r].user_id # call[q].user_id )
        => upvotes[call[r].idea_id] = LedgerCount(call[r].idea_id)

\* C5: an addUpvote(I,U) that directly follows a successful addUpvote(I,U)
\* ends as AlreadyUpvoted (ValueError, HTTP 400) unless the store fails, no
\* step of it changes the IdeaUpvote rows or ideas.upvotes, and when it has
\* ended there is exactly one row for (I,U).
C5_SecondAddRejected ==
    /\ [](\A r \in Reqs :
            (pc[r] = "done" /\ call[r].op = "add" /\ Follows(r, "add")
             /\ ret[r].detail # "OperationalError")
            => /\ ret[r].kind = "ValueError"
               /\ ret[r].detail = "User has already upvoted this idea"
               /\ http[r] = 400
               /\ idea_upvotes[Pair(r)] = 1)
    /\ [][\A r \in Reqs :
            (r \in Underway /\ call[r].op = "add" /\ Follows(r, "add"))
            => (idea_upvotes' = idea_upvotes /\ upvotes' = upvotes)]_vars

C5_Witness ==
    \E r \in Reqs :
        /\ pc[r] = "done" /\ call[r].op = "add" /\ Follows(r, "add")
        /\ ret[r].kind = "ValueError"
        /\ http[r] = 400
        /\ idea_upvotes[Pair(r)] = 1

\* C6: when a successful removeUpvote(I,U) directly follows a successful
\* addUpvote(I,U), ideas.upvotes of I and the count removeUpvote returns
\* equal the value ideas.upvotes had before the add, and has_user_upvoted
\* is false.
C6_AddThenRemoveRestores ==
    \A r \in Reqs :
        (Succeeded(r, {"remove"}) /\ Follows(r, "add")) =>
            LET i == call[r].idea_id IN
            /\ upvotes[i] = prev.pre
            /\ ret[r].upv[i] = prev.pre
            /\ ~has_user_upvoted(i, call[r].user_id)

\* C7: a removeUpvote for an existing idea that finds no IdeaUpvote row of
\* (I,U) ends, unless the store fails, as NotUpvoted (ValueError, HTTP 400);
\* neither its look-up of the idea nor its check changes the IdeaUpvote rows
\* or ideas.upvotes.
C7_RemoveWithoutRecord ==
    [][\A r \in Reqs :
        ( /\ call[r].op = "remove"
          /\ pc[r] \in {"query", "check"}
          /\ pc'[r] # pc[r]
          /\ call[r].idea_id \in ideas
          /\ idea_upvotes[Pair(r)] = 0 )
        => /\ idea_upvotes' = idea_upvotes /\ upvotes' = upvotes
           /\ (pc[r] = "check" /\ ret'[r].detail # "OperationalError")
              => ( /\ pc'[r] = "done"
                   /\ ret'[r].kind = "ValueError"
                   /\ ret'[r].detail = "User has not upvoted this idea"
                   /\ http'[r] = 400
                   /\ msg'[r] = NoMsg )]_vars

C7_Witness ==
    \E r \in Reqs :
        /\ pc[r] = "done" /\ call[r].op = "remove"
        /\ call[r].idea_id \in ideas
        /\ ret[r].kind = "ValueError"
        /\ http[r] = 400
        /\ idea_upvotes[Pair(r)] = 0
        /\ upvotes[call[r].idea_id] > 0

\* C8: addUpvote and removeUpvote for an idea id that is not in the table
\* end, unless the store fails, with None and HTTP 404 in the one step that
\* looks the idea up; the step changes no table and hands no message to the
\* broadcaster.
C8_IdeaNotFound ==
    [][\A r \in Reqs :
        ( /\ call[r].op \in {"add", "remove"}
          /\ pc[r] = "query"
          /\ pc'[r] # pc[r]
          /\ call[r].idea_id \notin ideas
          /\ ret'[r].detail # "OperationalError" )
        => /\ pc'[r] = "done"
           /\ ret'[r].kind = "None"
           /\ http'[r] = 404
           /\ msg'[r] = NoMsg
           /\ ideas' = ideas /\ idea_upvotes' = idea_upvotes /\ upvotes' = upvotes]_vars

C8_Witness ==
    \E r, q \in Reqs :
        /\ pc[r] = "done" /\ call[r].op = "add"
        /\ pc[q] = "done" /\ call[q].op = "remove"
        /\ ret[r].kind = "None" /\ http[r] = 404 /\ msg[r] = NoMsg
        /\ ret[q].kind = "None" /\ http[q] = 404 /\ msg[q] = NoMsg
        /\ ideas # {}

\* C9: when a statement of addUpvote or removeUpvote, or its commit, fails
\* in the store, the step that fails leaves ideas, ideas.upvotes and the
\* IdeaUpvote rows as they were committed, discards the session and answers
\* HTTP 500; the steps of the call before it change no table either.
C9_FailureRollsBack ==
    [][\A r \in Reqs :
        ( /\ call[r].op \in {"add", "remove"}
          /\ pc[r] \in {"query", "check", "sync", "commit"}
          /\ pc'[r] # pc[r]
          /\ pc'[r] # "refresh" )
        => /\ ideas' = ideas /\ idea_upvotes' = idea_upvotes /\ upvotes' = upvotes
           /\ ret'[r].kind = "Exception"
              => (sess'[r] = EmptySess /\ http'[r] = 500 /\ pc'[r] = "done")]_vars

\* A commit refused by the store while the session held a counter to write,
\* and a statement that failed, both answered 500.
C9_Witness ==
    \E r, q \in Reqs :
        /\ pc[r] = "done" /\ ret[r].detail = "IntegrityError" /\ http[r] = 500
        /\ pc[q] = "done" /\ ret[q].detail = "OperationalError" /\ http[q] = 500
        /\ call[r].op = "add" /\ call[q].op = "remove"
        /\ upvotes[call[r].idea_id] # LedgerCount(call[r].idea_id)

\* C10: with calls executed one at a time, when get_idea_by_id or
\* get_all_ideas has returned, every idea it returned carries as upvotes the
\* number of its IdeaUpvote rows and the committed ideas.upvotes equals that
\* number; get_idea_by_id of an idea in the table returns that idea and
\* get_all_ideas the ideas its filters match; no step of a read changes the
\* IdeaUpvote rows.
C10_ReadReturnsLedgerCount ==
    /\ [](\A r \in Reqs :
            (pc[r] = "done" /\ call[r].op \in {"get", "list"}
             /\ ret[r].kind \in {"dict", "list"})
            => \A i \in ret[r].ids :
                  ret[r].upv[i] = LedgerCount(i) /\ upvotes[i] = LedgerCount(i))
    /\ [][\A r \in Reqs :
            (r \in Underway /\ call[r].op \in {"get", "list"} /\ pc'[r] # pc[r])
            => /\ idea_upvotes' = idea_upvotes
               /\ (pc'[r] = "done" /\ ret'[r].kind = "dict")
                    => ret'[r].ids = {call[r].idea_id}
               /\ (pc'[r] = "done" /\ ret'[r].kind = "list")
                    => ret'[r].ids = ideas \cap call[r].match]_vars

\* A get_idea_by_id that found a stale column and returned the row count.
C10_Witness ==
    \E r \in Reqs :
        /\ pc[r] = "done" /\ call[r].op = "get" /\ ret[r].kind = "dict"
        /\ pre[r] # LedgerCount(call[r].idea_id)
        /\ LedgerCount(call[r].idea_id) > 0
        /\ ret[r].upv[call[r].idea_id] = LedgerCount(call[r].idea_id)
        /\ Cardinality(ideas) = 2

\* C11: a recount of one idea (_sync_upvote_count, then commit) returns the
\* number of IdeaUpvote rows of the idea and leaves ideas.upvotes equal to it,
\* whatever the cached value was; a second recount of the same idea directly
\* after it changes no table in any of its steps and returns the same count.
C11_RecountIdempotent ==
    /\ [](\A r \in Reqs :
            (pc[r] = "done" /\ call[r].op = "recount" /\ ret[r].kind = "count")
            => LET i == call[r].idea_id IN
               /\ ret[r].upv[i] = LedgerCount(i)
               /\ i \in ideas => upvotes[i] = LedgerCount(i)
               /\ (prev.op = "recount" /\ prev.kind = "count" /\ prev.idea_id = i)
                    => ret[r].upv[i] = prev.upv)
    /\ [][\A r \in Reqs :
            ( /\ r \in Underway
              /\ call[r].op = "recount"
              /\ prev.op = "recount" /\ prev.kind = "count"
              /\ prev.idea_id = call[r].idea_id )
            => UNCHANGED db]_vars

\* A recount that repaired a stale counter, then a second one of the same
\* idea that returned the same count.
C11_Witness ==
    \E r \in Reqs :
        /\ pc[r] = "done" /\ call[r].op = "recount" /\ ret[r].kind = "count"
        /\ prev.op = "recount" /\ prev.kind = "count"
        /\ prev.idea_id = call[r].idea_id
        /\ prev.pre # prev.upv
        /\ prev.upv > 0
        /\ ret[r].upv[call[r].idea_id] = prev.upv
        /\ upvotes[call[r].idea_id] = prev.upv

\* C12: when sync_all_upvote_counts has returned, its mapping has one entry
\* for each idea of the table, each entry is the number of IdeaUpvote rows
\* of its idea, whatever the cached values were, and the committed
\* ideas.upvotes of every idea equals its entry.
C12_RecountAllMatchesLedger ==
    \A r \in Reqs :
        (pc[r] = "done" /\ call[r].op = "recount_all" /\ ret[r].kind = "counts")
        => /\ ret[r].ids = ideas
           /\ \A i \in ideas :
                 /\ ret[r].upv[i] = LedgerCount(i)
                 /\ upvotes[i] = ret[r].upv[i]

\* A sweep over two ideas with different row counts that found both cached
\* counters stale.
C12_Witness ==
    \E r \in Reqs :
        /\ pc[r] = "done" /\ call[r].op = "recount_all" /\ ret[r].kind = "counts"
        /\ Cardinality(ideas) = 2
        /\ sweep.stale = ideas
        /\ \E i, j \in ideas : ret[r].upv[i] # ret[r].upv[j]

\* C13 as stated: when sync_all_upvote_counts has failed partway, the ideas
\* it had visited before the failure have their committed ideas.upvotes
\* repaired (equal to the number of their rows).
C13_VisitedStayRepaired ==
    \A r \in Reqs :
        (pc[r] = "done" /\ call[r].op = "recount_all" /\ ret[r].kind = "Exception")
        => \A i \in sweep.visited : upvotes[i] = LedgerCount(i)

\* C13, amended: sync_all_upvote_counts writes in one transaction.  No step
\* of it other than its successful commit changes a table, so a sweep that
\* fails partway leaves every committed ideas.upvotes as it was before the
\* call, also those of the ideas it had visited; a sweep that succeeds after
\* a failed one leaves every ideas.upvotes equal to the number of rows.
C13_FailedSweepRepairsNothing ==
    /\ [][\A r \in Reqs :
            ( /\ call[r].op = "recount_all"
              /\ r \in Underway
              /\ ~(pc'[r] = "done" /\ ret'[r].kind = "counts") )
            => UNCHANGED db]_vars
    /\ [](\A r \in Reqs :
            ( /\ pc[r] = "done" /\ call[r].op = "recount_all"
              /\ ret[r].kind = "counts"
              /\ prev.op = "recount_all" /\ prev.kind = "Exception" )
            => \A i \in ideas : upvotes[i] = LedgerCount(i))

\* A sweep that failed after it had visited one of two ideas and had found
\* its counter stale: the counter is still stale.
C13_Witness ==
    \E r \in Reqs :
        /\ pc[r] = "done" /\ call[r].op = "recount_all" /\ ret[r].kind = "Exception"
        /\ sweep.visited # {} /\ sweep.visited # ideas
        /\ sweep.stale # {}
        /\ \A i \in sweep.stale : upvotes[i] # LedgerCount(i)

\* C14: when the broadcast after a committed addUpvote, removeUpvote or
\* increment_views raises, the step changes no table (the row written or
\* deleted and the counters stay committed), the request is answered with
\* HTTP 200 and the dictionary of the updated idea it got from the service.
C14_BroadcastFailureHarmless ==
    [][\A r \in Reqs :
        ( /\ pc[r] = "broadcast"
          /\ pc'[r] # pc[r]
          /\ ~msg'[r].delivered )
        => /\ UNCHANGED <<db, views>>
           /\ pc'[r] = "done"
           /\ http'[r] = 200
           /\ ret'[r] = ret[r]
           /\ ret[r].kind = "dict"
           /\ call[r].op = "add" => idea_upvotes'[Pair(r)] = 1
           /\ call[r].op = "remove" => idea_upvotes'[Pair(r)] = 0
           /\ call[r].op = "view" => views'[call[r].idea_id] = ret[r].views]_vars

\* A view increment that was committed, whose broadcast raised and whose
\* request was answered 200, after an upvote on the same idea.
C14_Witness ==
    \E r \in Reqs :
        /\ pc[r] = "done" /\ call[r].op = "view"
        /\ msg[r].type = "view_update" /\ ~msg[r].delivered
        /\ http[r] = 200
        /\ ret[r].views = MaxViews
        /\ views[call[r].idea_id] = MaxViews
        /\ LedgerCount(call[r].idea_id) > 0

\* The created_at of the nodes of a list, in the order of the list.
Times(nodes) == [k \in 1..Len(nodes) |-> nodes[k].created_at]
StrictlyDescending(ts) == \A a, b \in 1..Len(ts) : a < b => ts[a] > ts[b]
StrictlyAscending(ts) == \A a, b \in 1..Len(ts) : a < b => ts[a] < ts[b]

RECURSIVE RepliesAscending(_)
RepliesAscending(nodes) ==
    \A k \in 1..Len(nodes) :
        /\ StrictlyAscending(Times(nodes[k].replies))
        /\ RepliesAscending(nodes[k].replies)

DistinctTimes(i) ==
    \A c, d \in Present :
        (c # d /\ comments[c].idea_id = i /\ comments[d].idea_id = i)
        => comments[c].created_at # comments[d].created_at

Listed(r) ==
    /\ cpc[r] = "done"
    /\ ccall[r].op = "list"
    /\ cret[r].kind = "list"

\* C15: when get_idea_comments has returned for an idea whose comments have
\* pairwise different created_at, the top-level nodes are in strictly
\* descending created_at and the replies of every node, at every depth, are
\* in strictly ascending created_at.
C15_TreeOrder ==
    \A r \in Reqs :
        (Listed(r) /\ DistinctTimes(ccall[r].idea_id))
        => /\ StrictlyDescending(Times(cret[r].tree))
           /\ RepliesAscending(cret[r].tree)

\* Two top-level comments, the older of them with two replies, all of
\* different created_at.
C15_Witness ==
    \E r \in Reqs :
        /\ Listed(r) /\ DistinctTimes(ccall[r].idea_id)
        /\ Len(cret[r].tree) = 2
        /\ Len(cret[r].tree[2].replies) = 2
        /\ cret[r].tree[1].created_at > cret[r].tree[2].created_at
        /\ cret[r].tree[2].replies[1].created_at
             < cret[r].tree[2].replies[2].created_at

\* C16: the step of create_comment that validates a given parent ends,
\* unless the store fails, with ValueError "... not found" (HTTP 404) when
\* no comment has the parent id, and with ValueError "... does not belong to
\* idea ..." (HTTP 400) when the parent is a comment of another idea; no
\* step of a create_comment that does not return a comment changes table
\* comments.
C16_ParentValidated ==
    [][\A r \in Reqs :
        LET p == ccall[r].parent_comment_id IN
        /\ ( /\ cpc[r] = "parent"
             /\ cpc'[r] # cpc[r]
             /\ p # NoComment
             /\ cret'[r].detail # "OperationalError" )
           => /\ p \notin Present
                 => /\ cpc'[r] = "done"
                    /\ cret'[r].kind = "ValueError"
                    /\ cret'[r].detail = ParentNotFound
                    /\ chttp'[r] = 404
              /\ (p \in Present /\ comments[p].idea_id # ccall[r].idea_id)
                 => /\ cpc'[r] = "done"
                    /\ cret'[r].kind = "ValueError"
                    /\ cret'[r].detail = ParentIdeaMismatch
                    /\ chttp'[r] = 400
        /\ ( /\ ccall[r].op = "create"
             /\ cpc[r] \notin {"idle", "done"}
             /\ cret'[r].kind # "dict" )
           => comments' = comments]_vars

\* A reply to a comment of the other idea was refused and the table holds
\* the parent only.
C16_Witness ==
    \E r \in Reqs :
        LET p == ccall[r].parent_comment_id IN
        /\ cpc[r] = "done" /\ ccall[r].op = "create"
        /\ p \in Present
        /\ comments[p].idea_id # ccall[r].idea_id
        /\ cret[r].kind = "ValueError" /\ cret[r].detail = ParentIdeaMismatch
        /\ chttp[r] = 400
        /\ Present = {p}

\* Comment d is a direct or transitive reply to comment c.
RECURSIVE IsUnder(_, _)
IsUnder(d, c) ==
    LET p == comments[d].parent_comment_id IN
    /\ p # NoComment
    /\ (p = c \/ IsUnder(p, c))

C18_DeletePermission ==
    [][\A r \in Reqs :
        LET c == ccall[r].comment_id
            owner == idea_owner[comments[c].idea_id]
            permitted == \/ comments[c].user_id = ccall[r].user_id
                         \/ (owner # NoUser /\ owner = ccall[r].user_id)
        IN  ( /\ ccall[r].op = "delete"
              /\ cpc[r] \in {"query", "idea", "commit"}
              /\ cpc'[r] # cpc[r]
              /\ c \in Present
              /\ cret'[r].detail # "OperationalError" )
            => /\ cpc[r] = "query" => cpc'[r] = "idea"
               /\ (cpc[r] = "idea" /\ permitted) => cpc'[r] = "commit"
               /\ (cpc[r] = "idea" /\ ~permitted)
                  => /\ cpc'[r] = "done"
                     /\ cret'[r].kind = "ValueError"
                     /\ cret'[r].detail = PermissionDenied
                     /\ chttp'[r] = 403
               /\ cpc[r] = "commit"
                  => /\ permitted
                     /\ cret'[r].kind = "True"
                     /\ chttp'[r] = 200
                     /\ comments'[c].state = "gone"
               /\ ~permitted => comments' = comments]_vars

\* A user who is neither the author of a comment nor the owner of its idea,
\* which has an owner, was refused; the comment and its reply are stored.
C18_Witness ==
    \E r \in Reqs :
        LET c == ccall[r].comment_id IN
        /\ cpc[r] = "done" /\ ccall[r].op = "delete"
        /\ cret[r].kind = "ValueError" /\ cret[r].detail = PermissionDenied
        /\ chttp[r] = 403
        /\ c \in Present
        /\ comments[c].user_id # ccall[r].user_id
        /\ idea_owner[comments[c].idea_id] \notin {NoUser, ccall[r].user_id}
        /\ \E d \in Present : comments[d].parent_comment_id = c

\* Every IdeaUpvote row references a row of table ideas.
UpvotesReferenceIdeas ==
    \A p \in Users \X IdeaIds : idea_upvotes[p] > 0 => p[2] \in ideas

\* C19: the commit of a delete_idea by the owner of an idea without
\* comments, unless the store fails, deletes the idea and answers 200,
\* whether or not IdeaUpvote rows reference it, and leaves no IdeaUpvote row
\* of the idea; after every step every IdeaUpvote row references a stored
\* idea.
C19_OwnerDeletesIdea ==
    [][/\ UpvotesReferenceIdeas'
       /\ \A r \in Reqs :
            LET i == call[r].idea_id IN
            ( /\ call[r].op = "delete_idea"
              /\ pc[r] = "commit"
              /\ pc'[r] = "done"
              /\ idea_owner[i] = call[r].user_id
              /\ comments_of(i) = {}
              /\ ret'[r].detail # "OperationalError" )
            => /\ http'[r] = 200
               /\ i \notin ideas'
               /\ \A u \in Users : idea_upvotes'[<<u, i>>] = 0]_vars

\* C20: when the loop over the tokens ended by an exception or by the
\* stream being cut off after at least one token, the finally block, unless
\* the store fails, appends exactly one message to the chat: an assistant
\* message whose text is the output accumulated so far, stripped, and not
\* empty; the user message saved before streaming is the message before it.
C20_PartialOutputPersisted ==
    [][( /\ stream.pc = "finally"
         /\ stream'.pc = "title"
         /\ stream.ending \in {"exception", "cut_off"}
         /\ stream.produced >= 1 )
       => LET n == Len(chat_messages) IN
          /\ stream.full_response # <<>>
          /\ Strip(stream.full_response) # <<>>
          /\ chat_messages' = Append(chat_messages,
                                     Message("assistant", Strip(stream.full_response)))
          /\ n >= 1
          /\ chat_messages'[n] = Message("user", stream.message)]_vars

\* A token stream failed or was cut off before its last token, when the
\* output accumulated ended with a space: the chat ends with the user
\* message and the assistant message of the words produced.
C20_Witness ==
    /\ stream.pc \in {"title", "done"}
    /\ ~stream.failed
    /\ stream.ending \in {"exception", "cut_off"}
    /\ stream.produced >= 1
    /\ stream.produced < Tokens(stream.style, stream.words)
    /\ stream.full_response # Strip(stream.full_response)
    /\ Len(chat_messages) >= 2
    /\ chat_messages[Len(chat_messages)]
         = Message("assistant", Strip(stream.full_response))
    /\ chat_messages[Len(chat_messages) - 1] = Message("user", stream.message)

\* The comment reached from c by following n parent pointers, or NoComment
\* when a top-level comment is reached before.
RECURSIVE Climb(_, _)
Climb(c, n) ==
    IF c = NoComment \/ n = 0 THEN c
    ELSE Climb(comments[c].parent_comment_id, n - 1)

\* C21: in every state of interleaved create_comment and delete_comment
\* calls, every comment with a parent_comment_id has a stored comment of the
\* same idea as its parent, and following the parent pointers from any
\* comment reaches a top-level comment within as many steps as there are
\* comments.
C21_CommentsFormForest ==
    \A c \in Present :
        LET p == comments[c].parent_comment_id IN
        /\ p # NoComment
           => /\ p \in Present
              /\ comments[p].idea_id = comments[c].idea_id
        /\ Climb(c, Cardinality(Present)) = NoComment

\* Two calls that ran together have ended, a create with its comment and a
\* delete with True; a comment is gone and a reply to a stored comment is
\* stored.
C21_Witness ==
    /\ \E r, q \in Reqs :
          /\ cpc[r] = "done" /\ ccall[r].op = "create" /\ cret[r].kind = "dict"
          /\ cpc[q] = "done" /\ ccall[q].op = "delete" /\ cret[q].kind = "True"
    /\ \E c \in CommentIds : comments[c].state = "gone"
    /\ \E c \in Present : comments[c].parent_comment_id \in Present

\* C22: every step takes a comment from unborn to unborn or present, from
\* present to present or gone, and from gone to gone only, and leaves the
\* parent_comment_id and the idea_id of a comment that stays present as they
\* are.
C22_CommentLifecycle ==
    [][\A c \in CommentIds :
        /\ comments[c].state = "unborn" => comments'[c].state \in {"unborn", "present"}
        /\ comments[c].state = "present" => comments'[c].state \in {"present", "gone"}
        /\ comments[c].state = "gone" => comments'[c].state = "gone"
        /\ (comments[c].state = "present" /\ comments'[c].state = "present")
           => /\ comments'[c].parent_comment_id = comments[c].parent_comment_id
              /\ comments'[c].idea_id = comments[c].idea_id]_vars

\* C23: a message is handed to the broadcaster only by a call that returned
\* a dictionary, after its commit (the IdeaUpvote row of an add is stored,
\* that of a remove is not, the views of a view are positive); it is an
\* upvote_update or view_update for the idea of the call and carries the
\* committed ideas.upvotes, or ideas.views, of that idea; a call that
\* returned None or raised has handed over no message.
C23_NotifyAfterCommit ==
    [][\A r \in Reqs :
        LET i == call[r].idea_id IN
        /\ msg'[r] # msg[r] /\ msg'[r] # NoMsg
           => /\ ret[r].kind = "dict"
              /\ i \in ideas
              /\ msg'[r].idea_id = i
              /\ call[r].op = "add"
                 => /\ msg'[r].type = "upvote_update"
                    /\ msg'[r].action = "upvoted"
                    /\ msg'[r].upvotes = upvotes[i]
                    /\ idea_upvotes[<<call[r].user_id, i>>] = 1
              /\ call[r].op = "remove"
                 => /\ msg'[r].type = "upvote_update"
                    /\ msg'[r].action = "removed_upvote"
                    /\ msg'[r].upvotes = upvotes[i]
                    /\ idea_upvotes[<<call[r].user_id, i>>] = 0
              /\ call[r].op = "view"
                 => /\ msg'[r].type = "view_update"
                    /\ msg'[r].views = views[i]
                    /\ views[i] >= 1
        /\ (pc'[r] = "done" /\ ret'[r].kind \in {"None", "ValueError", "Exception"})
           => msg'[r] = NoMsg]_vars

\* An upvote_update with count 1 was pushed for a remove, after an add that
\* had pushed its own.
C23_Witness ==
    \E r \in Reqs :
        /\ pc[r] = "done" /\ call[r].op = "remove"
        /\ msg[r].type = "upvote_update" /\ msg[r].action = "removed_upvote"
        /\ msg[r].upvotes = upvotes[call[r].idea_id]
        /\ msg[r].upvotes >= 1

\* The increment_views calls on idea i that have committed and not failed.
SuccessfulViews(i) ==
    {r \in Reqs :
        /\ call[r].op = "view" /\ call[r].idea_id = i
        /\ \/ pc[r] \in {"refresh", "broadcast"}
           \/ pc[r] = "done" /\ ret[r].kind = "dict"}

\* C24: the views of an idea added with views 0 equal the number of
\* increment_views calls on it that have succeeded, whether they ran one
\* after the other or together, and its upvotes and the IdeaUpvote rows are
\* as they were.
C24_ViewsCountCalls ==
    \A i \in ideas :
        /\ views[i] = Cardinality(SuccessfulViews(i))
        /\ upvotes[i] = 0
        /\ \A u \in Users : idea_upvotes[<<u, i>>] = 0

\* C25: the user has at most one chat without messages, and a
\* GET /chat/empty that looks for one while there is one answers with it
\* and creates none.
C25_OneEmptyChat ==
    [][/\ Cardinality(EmptyChats') <= 1
       /\ \A r \in Reqs :
            ( /\ getter[r].pc = "query"
              /\ getter'[r].pc # "query"
              /\ getter'[r].status # 500
              /\ EmptyChats # {} )
            => /\ getter'[r].pc = "done"
               /\ getter'[r].chat_id \in EmptyChats
               /\ user_chats' = user_chats]_vars

\* C26: when a call of generate_ai_reply without chat_id has returned, the
\* session it created, if any, has been deleted, unless the DELETE it sent
\* failed, and no key of the session map holds it.
C26_TemporarySessionDeleted ==
    \A r \in Reqs :
        ( /\ caller[r].pc = "done"
          /\ caller[r].chat_id = NoChat
          /\ caller[r].session_id # NoSession
          /\ caller[r].deleted # "failed" )
        => /\ sessions[caller[r].session_id] = "deleted"
           /\ \A k \in ChatIds : session_map[k] # caller[r].session_id

\* C28: the session recorded for a chat_id is never replaced by another,
\* every session the API has created for a chat_id is the recorded one, and
\* all calls for the chat_id that hold a session hold the recorded one.
C28_OneSessionPerChat ==
    [][\A k \in ChatIds :
        /\ session_map[k] # NoSession => session_map'[k] = session_map[k]
        /\ \A r \in Reqs :
              (caller'[r].chat_id = k /\ caller'[r].session_id # NoSession)
              => caller'[r].session_id = session_map'[k]]_vars

\* C30: when a broadcast has ended, every connection that was registered
\* for the idea when it began, is still registered and is open has been sent
\* the message, no connection whose send failed is registered, and no idea
\* is mapped to an empty set.
C30_BroadcastReachesAll ==
    /\ \A i \in DOMAIN active_connections : active_connections[i] # {}
    /\ caster.pc = "done"
       => /\ \A w \in caster.at_start \cap Registered(caster.idea_id) :
                sockets[w] = "open" => w \in caster.sent
          /\ caster.disconnected \cap Registered(caster.idea_id) = {}

\* The ids of the nodes of a list of trees, each node before its replies.
RECURSIVE Flatten(_)
Flatten(nodes) ==
    IF nodes = <<>> THEN <<>>
    ELSE <<nodes[1].id>> \o Flatten(nodes[1].replies) \o Flatten(Tail(nodes))

\* Every node of the list is a comment whose parent_comment_id is parent,
\* and so on for the replies of every node.
RECURSIVE PlacedUnder(_, _)
PlacedUnder(nodes, parent) ==
    \A k \in 1..Len(nodes) :
        /\ comments[nodes[k].id].parent_comment_id = parent
        /\ PlacedUnder(nodes[k].replies, nodes[k].id)

\* C27: the tree get_idea_comments returns for an idea holds every stored
\* comment of the idea exactly once and no other comment, the top-level
\* comments at the top level and every reply among the replies of the node
\* of its parent; the replies of every node are a list, empty for a comment
\* nobody replied to.
C27_TreeHoldsEveryComment ==
    \A r \in Reqs :
        Listed(r)
        => LET flat == Flatten(cret[r].tree)
               of_idea == {c \in Present : comments[c].idea_id = ccall[r].idea_id}
           IN  /\ {flat[k] : k \in 1..Len(flat)} = of_idea
               /\ Len(flat) = Cardinality(of_idea)
               /\ PlacedUnder(cret[r].tree, NoComment)

\* A tree of an idea with a reply to a reply, and a leaf with an empty list
\* of replies, while the other idea has a comment too.
C27_Witness ==
    \E r \in Reqs :
        /\ Listed(r)
        /\ Len(cret[r].tree) >= 1
        /\ Len(cret[r].tree[1].replies) >= 1
        /\ Len(cret[r].tree[1].replies[1].replies) = 1
        /\ cret[r].tree[1].replies[1].replies[1].replies = <<>>
        /\ \E c \in Present : comments[c].idea_id # ccall[r].idea_id

(***************************************************************************)
(* Upvotes and views of two ideas                                           *)
(***************************************************************************)

\* Upvotes, removals and views of the two ideas of the table, which start
\* with any cached counter: the requests of one server process, one after
\* another.
BothNext ==
    \/ Quiet /\ \E i \in IdeaIds, v \in 0..MaxInitUpvotes : AddIdea(i, v, NoUser)
    \/ \E c \in UpvoteCalls : ideas = IdeaIds /\ Begin(SeqReq, c)
    \/ \E c \in ViewCalls :
          ideas = IdeaIds /\ views[c.idea_id] < MaxViews /\ Begin(SeqReq, c)
    \/ UpvoteStep(SeqReq)
    \/ ViewQuery(SeqReq)
    \/ ViewCommit(SeqReq)

BothSpec == Init /\ [][BothNext]_vars

\* C29: no step of an addUpvote or removeUpvote call for idea I by user U,
\* its commit included, changes an IdeaUpvote record other than that of
\* (U, I), the cached upvotes of an idea other than I, or the views of any
\* idea.
C29_OnlyTheVotedIdea ==
    [][\A r \in Reqs :
          (/\ pc[r] \notin {"idle", "done"}
           /\ pc'[r] # pc[r]
           /\ call[r].op \in {"add", "remove"})
          => /\ \A p \in DOMAIN idea_upvotes :
                   p # Pair(r) => idea_upvotes'[p] = idea_upvotes[p]
             /\ \A j \in IdeaIds \ {call[r].idea_id} : upvotes'[j] = upvotes[j]
             /\ views' = views]_vars

\* An addUpvote has committed while the other idea has a record, a cached
\* count and views, and the idea itself a record of the other user.
C29_Witness ==
    \E r \in Reqs :
        /\ pc[r] = "refresh"
        /\ call[r].op = "add"
        /\ idea_upvotes[Pair(r)] = 1
        /\ \E j \in IdeaIds \ {call[r].idea_id} :
              /\ upvotes[j] > 0
              /\ views[j] > 0
              /\ \E u \in Users : idea_upvotes[<<u, j>>] > 0
        /\ \E u \in Users \ {call[r].user_id} :
              idea_upvotes[<<u, call[r].idea_id>>] > 0

====
